---- MODULE Spec2Model ----
(***************************************************************************)
(* A model of the SEC filings pipeline of adk-equity-research              *)
(* (src/filingsResearch/sec_filings.py).                                   *)
(*                                                                         *)
(*  - the chunker, summarize_filing: SpecChunk                             *)
(*  - the fetch layer, retry_with_backoff / should_retry_request /         *)
(*    make_request, and its caller find_filings: SpecFetch                 *)
(*  - the company lookup, find_cik (get_company_cik.py): SpecCik           *)
(*  - the priority cascade over the index table: SpecResolve               *)
(*  - the two re.sub calls of the text cleanup: SpecCleanup                *)
(*  - extract_filing_text, one step per request: SpecExtract               *)
(*  - two calls of the retry wrapper running side by side: SpecConc        *)
(*  - summarize_filing called again for one URL: SpecSession               *)
(*                                                                         *)
(* Strings the program builds are sequences of tokens: a token is one      *)
(* character of filing text, one decimal digit, or one literal piece of a  *)
(* format string.  In the model of extract_filing_text a token may also   *)
(* stand for a stretch of text of a given length (TokLen), and a page is   *)
(* the sequence of its top-level elements.                                 *)
(***************************************************************************)
EXTENDS Integers, Sequences, FiniteSets, TLC

(* ------------------------------ bounds -------------------------------- *)

\* longest extracted filing text, in characters
MaxLen == 4
\* largest max_chunk_size a caller passes
MaxChunk == 3

\* the characters of filing text
Alphabet == {"a", "b"}

RECURSIVE SeqsUpTo(_, _)
SeqsUpTo(S, n) ==
    IF n = 0 THEN {<<>>}
    ELSE LET shorter == SeqsUpTo(S, n - 1)
         IN  shorter \cup {Append(s, x) : s \in {t \in shorter : Len(t) = n - 1}, x \in S}

Texts == SeqsUpTo(Alphabet, MaxLen)
ChunkSizes == 1..MaxChunk
\* chunk indices a caller may pass: -1, valid ones, and some on either side
ChunkIndices == (-3)..(MaxLen + 1)

Min(a, b) == IF a < b THEN a ELSE b
Max(a, b) == IF a > b THEN a ELSE b

(* ------------------------- string formatting -------------------------- *)

Digits == <<"0", "1", "2", "3", "4", "5", "6", "7", "8", "9">>

\* str(n) of an int, as f"{n}" renders it
RECURSIVE Decimal(_)
Decimal(n) ==
    IF n < 0 THEN <<"-">> \o Decimal(-n)
    ELSE IF n < 10 THEN <<Digits[n + 1]>>
    ELSE Decimal(n \div 10) \o <<Digits[(n % 10) + 1]>>

\* mutant: the marker numbers chunks from 0
chunk_info_zero_based(chunk_index, total_chunks) ==
    <<"[Chunk ">> \o Decimal(chunk_index) \o <<" of ">>
        \o Decimal(total_chunks) \o <<"] ">>

\* f"[Chunk {chunk_index+1} of {total_chunks}] "
chunk_info(chunk_index, total_chunks) ==
    <<"[Chunk ">> \o Decimal(chunk_index + 1) \o <<" of ">>
        \o Decimal(total_chunks) \o <<"] ">>

\* f"Filing has {total_chunks} chunks. Use chunk_index=0 to {total_chunks-1} to retrieve specific chunks."
total_info(total_chunks) ==
    <<"Filing has ">> \o Decimal(total_chunks)
        \o <<" chunks. Use chunk_index=">> \o Decimal(0) \o <<" to ">>
        \o Decimal(total_chunks - 1)
        \o <<" to retrieve specific chunks.">>

\* f"Invalid chunk_index. Filing has {total_chunks} chunks. Use chunk_index=0 to {total_chunks-1}."
invalid_info(total_chunks) ==
    <<"Invalid chunk_index. Filing has ">> \o Decimal(total_chunks)
        \o <<" chunks. Use chunk_index=">> \o Decimal(0) \o <<" to ">>
        \o Decimal(total_chunks - 1)
        \o <<".">>

(* ------------------------------ chunker ------------------------------- *)

\* (total_length + max_chunk_size - 1) // max_chunk_size
total_chunks(filing_text, max_chunk_size) ==
    (Len(filing_text) + max_chunk_size - 1) \div max_chunk_size

\* mutant: the slice stops one character before the end of the text
chunk_text_short(filing_text, chunk_index, max_chunk_size) ==
    LET start_pos == chunk_index * max_chunk_size
        end_pos   == Min(start_pos + max_chunk_size, Len(filing_text) - 1)
    IN  SubSeq(filing_text, start_pos + 1, end_pos)

\* filing_text[start_pos:end_pos] of the requested chunk
chunk_text(filing_text, chunk_index, max_chunk_size) ==
    LET start_pos == chunk_index * max_chunk_size
        end_pos   == Min(start_pos + max_chunk_size, Len(filing_text))
    IN  SubSeq(filing_text, start_pos + 1, end_pos)

\* mutant: the range check accepts chunk_index = total_chunks
summarize_branch_off_by_one(filing_text, chunk_index, max_chunk_size) ==
    LET total == (Len(filing_text) + max_chunk_size - 1) \div max_chunk_size
    IN  IF chunk_index = -1 THEN "info"
        ELSE IF chunk_index < 0 \/ chunk_index > total THEN "invalid"
        ELSE "chunk"

\* mutant: the range check runs before the sentinel test
summarize_branch_validate_first(filing_text, chunk_index, max_chunk_size) ==
    LET total == (Len(filing_text) + max_chunk_size - 1) \div max_chunk_size
    IN  IF chunk_index < 0 \/ chunk_index >= total THEN "invalid"
        ELSE IF chunk_index = -1 THEN "info"
        ELSE "chunk"

\* the branch summarize_filing takes: "info", "invalid" or "chunk"
summarize_branch(filing_text, chunk_index, max_chunk_size) ==
    LET total == total_chunks(filing_text, max_chunk_size)
    IN  IF chunk_index = -1 THEN "info"
        ELSE IF chunk_index < 0 \/ chunk_index >= total THEN "invalid"
        ELSE "chunk"

\* summarize_filing over the text extract_filing_text returned
summarize_filing(filing_text, chunk_index, max_chunk_size) ==
    LET total  == total_chunks(filing_text, max_chunk_size)
        branch == summarize_branch(filing_text, chunk_index, max_chunk_size)
    IN  CASE branch = "info"    -> total_info(total)
          [] branch = "invalid" -> invalid_info(total)
          [] OTHER              -> chunk_info(chunk_index, total)
                                     \o chunk_text(filing_text, chunk_index, max_chunk_size)

(* ----------------------- reading the results back --------------------- *)

IsDigit(t) == \E i \in 1..10 : Digits[i] = t
DigitVal(t) == CHOOSE v \in 0..9 : Digits[v + 1] = t

\* the integers written in a message, in order of appearance
Numbers(msg) ==
    LET scan[i \in 0..Len(msg)] ==
            IF i = 0 THEN [done |-> <<>>, open |-> FALSE, neg |-> FALSE, val |-> 0]
            ELSE LET p == scan[i - 1]
                     t == msg[i]
                     closed == IF p.open
                               THEN Append(p.done, IF p.neg THEN -p.val ELSE p.val)
                               ELSE p.done
                 IN  IF IsDigit(t)
                     THEN [done |-> p.done, open |-> TRUE, neg |-> p.neg,
                           val |-> 10 * p.val + DigitVal(t)]
                     ELSE IF t = "-" /\ ~p.open
                     THEN [done |-> p.done, open |-> FALSE, neg |-> TRUE, val |-> 0]
                     ELSE [done |-> closed, open |-> FALSE, neg |-> FALSE, val |-> 0]
        last == scan[Len(msg)]
    IN  IF last.open
        THEN Append(last.done, IF last.neg THEN -last.val ELSE last.val)
        ELSE last.done

\* position of the token closing the chunk marker, 0 when there is none
MarkerEnd(res) ==
    IF \E i \in 1..Len(res) : res[i] = "] "
    THEN CHOOSE i \in 1..Len(res) : res[i] = "] " /\ \A j \in 1..(i - 1) : res[j] # "] "
    ELSE 0

\* a chunk result with its "[Chunk i+1 of total] " marker removed
StripMarker(res) == SubSeq(res, MarkerEnd(res) + 1, Len(res))

\* the smallest n with n * b >= a
CeilDiv(a, b) == CHOOSE n \in 0..(a + 1) : n * b >= a /\ \A m \in 0..(n - 1) : m * b < a

HasText(res) == \E i \in 1..Len(res) : res[i] \in Alphabet

(* ------------------------------- state -------------------------------- *)

VARIABLES
    filing_text,     \* what extract_filing_text returns for the filing URL
    max_chunk_size,  \* the max_chunk_size the caller uses
    chunk_index,     \* chunk_index of the latest summarize_filing call
    result,          \* what the latest summarize_filing call returned
    called,          \* whether summarize_filing has been called yet
    reader_pc,       \* a caller reading the filing chunk by chunk
    reader_total,    \* the total that caller read from the chunk_index=-1 reply
    next_index,      \* the next chunk_index it asks for
    assembled        \* the chunk bodies it has received, concatenated

chunkVars == <<filing_text, max_chunk_size, chunk_index, result, called,
               reader_pc, reader_total, next_index, assembled>>

VARIABLES
    caller,          \* who called make_request: "none", "make_request", "find_filings"
    mr_pc,           \* the retry wrapper: "idle", "try", "sleeping", "returned", "raised"
    retry,           \* the wrapper's loop variable
    delay,           \* the wrapper's nominal delay, in milliseconds
    actual_delay,    \* the delay being slept, in 1/100000 of a millisecond
    last_exception,  \* the wrapper's last_exception
    attempts,        \* requests performed by this call
    failures,        \* the exceptions of the failed attempts, in order
    sleeps,          \* the delays slept, in order
    raised,          \* the exception the wrapper raised to its caller
    ff_args,         \* find_filings' arguments
    ff_fetch,        \* how find_filings' fetch ended: "none", "ok", "failed"
    ff_response,     \* the response body find_filings parsed
    ff_returned,     \* whether find_filings has returned
    ff_result        \* what find_filings returned

wrapperVars == <<caller, mr_pc, retry, delay, actual_delay, last_exception,
                 attempts, failures, sleeps, raised>>
ffVars == <<ff_args, ff_fetch, ff_response, ff_returned, ff_result>>
fetchVars == <<wrapperVars, ffVars>>
VARIABLES
    cik_pc,          \* find_cik: "idle", "posted", "returned", "raised"
    cik_net,         \* what requests.post produced for the lookup
    cik_posts,       \* POST requests performed by this call
    cik_result       \* what find_cik returned

cikVars == <<cik_pc, cik_net, cik_posts, cik_result>>

VARIABLES
    idx_rows,        \* the <tr> rows of the index page's file table
    res_pc,          \* the document resolver: "idle", "resolved"
    document_link,   \* document_link after the priority cascade
    sel_row,         \* index of the row the link was taken from, 0 if none
    sel_rule         \* index in file_priorities of the rule that took it

resolveVars == <<idx_rows, res_pc, document_link, sel_row, sel_rule>>

VARIABLES
    raw_text,        \* a text as extracted, before the cleanup
    clean_pc,        \* whether the cleanup has run on it: "raw", "once"
    cleaned_once     \* the text after the cleanup

cleanVars == <<raw_text, clean_pc, cleaned_once>>

VARIABLES
    et_pc,           \* extract_filing_text: "idle", "index", "nested", "page",
                     \* "document", "alternative", "lookup", "linked", "extract",
                     \* "returned"
    filing_url,      \* the URL the caller passed
    requests_made,   \* the URLs handed to make_request by this call, in order
    soup,            \* the parsed page fetched for filing_url
    document_url,    \* the URL built from document_link
    document_soup,   \* the parsed page the text is extracted from
    is_xbrl,         \* the document was detected as XBRL
    is_10k,          \* the document was detected as a 10-K
    pending_urls,    \* URLs the loop in progress still has to try
    index_error,     \* the exception of a failed request for filing_url
    et_result,       \* what the call ended with
    et_path          \* the branch the call ended on

extractVars == <<et_pc, filing_url, requests_made, soup, document_url, document_soup,
                 is_xbrl, is_10k, pending_urls, index_error, et_result, et_path>>

\* concurrent calls of make_request: the locals of each call's wrapper frame
VARIABLES
    cc_pc,           \* per call: "idle", "try", "sleeping", "returned", "raised"
    cc_retry,        \* per call: the loop variable retry
    cc_delay,        \* per call: the local delay
    cc_last,         \* per call: the local last_exception
    cc_attempts,     \* per call: requests performed
    cc_sleeps        \* per call: the delays slept, in order

concVars == <<cc_pc, cc_retry, cc_delay, cc_last, cc_attempts, cc_sleeps>>

docVars == <<cikVars, resolveVars, cleanVars, extractVars, concVars>>
otherThanCik == <<chunkVars, fetchVars, resolveVars, cleanVars, extractVars, concVars>>
otherThanResolve == <<chunkVars, fetchVars, cikVars, cleanVars, extractVars, concVars>>
otherThanClean == <<chunkVars, fetchVars, cikVars, resolveVars, extractVars, concVars>>
otherThanExtract == <<chunkVars, fetchVars, cikVars, resolveVars, cleanVars, concVars>>
otherThanConc == <<chunkVars, fetchVars, cikVars, resolveVars, cleanVars, extractVars>>
vars == <<chunkVars, fetchVars, docVars>>

\* @retry_with_backoff(max_retries=3, initial_delay=2.0, ...) on make_request
max_retries == 3
\* initial_delay=2.0 seconds, in milliseconds
initial_delay == 2000
\* backoff_factor: float = 2.0
backoff_factor == 2

NoException == [cls |-> "None", status |-> 0]
NoArgs == [filing_type |-> "<None>", count |-> 0]
NoResponse == [xml |-> FALSE, feed |-> <<>>, raw |-> <<>>, rows |-> <<>>, anchors |-> <<>>]

\* no call of the fetch layer is in progress
FetchIdle ==
    /\ caller = "none"
    /\ mr_pc = "idle"
    /\ retry = 0
    /\ delay = initial_delay
    /\ actual_delay = 0
    /\ last_exception = NoException
    /\ attempts = 0
    /\ failures = <<>>
    /\ sleeps = <<>>
    /\ raised = NoException
    /\ ff_args = NoArgs
    /\ ff_fetch = "none"
    /\ ff_response = NoResponse
    /\ ff_returned = FALSE
    /\ ff_result = <<>>

\* no summarize_filing call has been made
ChunkIdle ==
    /\ filing_text = <<>>
    /\ max_chunk_size = 1
    /\ chunk_index = 0
    /\ result = <<>>
    /\ called = FALSE
    /\ reader_pc = "idle"
    /\ reader_total = 0
    /\ next_index = 0
    /\ assembled = <<>>

NoNet == [kind |-> "none"]

\* no find_cik call is in progress
CikIdle ==
    /\ cik_pc = "idle"
    /\ cik_net = NoNet
    /\ cik_posts = 0
    /\ cik_result = <<>>

\* document_link = None
NoDocumentLink == <<"<None>">>

\* the document resolver has not run
ResolveIdle ==
    /\ idx_rows = <<>>
    /\ res_pc = "idle"
    /\ document_link = NoDocumentLink
    /\ sel_row = 0
    /\ sel_rule = 0

\* the cleanup has not run
CleanIdle ==
    /\ raw_text = <<>>
    /\ clean_pc = "raw"
    /\ cleaned_once = <<>>

\* a page that was never fetched
NoPage == [rawlen |-> 0, xml |-> FALSE, nodes |-> <<>>, docs |-> <<>>]
NoResult == [kind |-> "none"]

\* no extract_filing_text call has been made
ExtractIdle ==
    /\ et_pc = "idle"
    /\ filing_url = <<>>
    /\ requests_made = <<>>
    /\ soup = NoPage
    /\ document_url = <<>>
    /\ document_soup = NoPage
    /\ is_xbrl = FALSE
    /\ is_10k = FALSE
    /\ pending_urls = <<>>
    /\ index_error = NoException
    /\ et_result = NoResult
    /\ et_path = "none"

\* the calls in flight at the same time
Calls == {1, 2}

\* no concurrent call has started
ConcIdle ==
    /\ cc_pc = [c \in Calls |-> "idle"]
    /\ cc_retry = [c \in Calls |-> 0]
    /\ cc_delay = [c \in Calls |-> initial_delay]
    /\ cc_last = [c \in Calls |-> NoException]
    /\ cc_attempts = [c \in Calls |-> 0]
    /\ cc_sleeps = [c \in Calls |-> <<>>]

DocIdle == CikIdle /\ ResolveIdle /\ CleanIdle /\ ExtractIdle /\ ConcIdle

InitChunk ==
    /\ filing_text \in Texts
    /\ max_chunk_size \in ChunkSizes
    /\ chunk_index = 0
    /\ result = <<>>
    /\ called = FALSE
    /\ reader_pc = "idle"
    /\ reader_total = 0
    /\ next_index = 0
    /\ assembled = <<>>
    /\ FetchIdle
    /\ DocIdle

\* any caller: summarize_filing(filing_url, i, max_chunk_size)
Summarize(i) ==
    /\ called' = TRUE
    /\ chunk_index' = i
    /\ result' = summarize_filing(filing_text, i, max_chunk_size)
    /\ UNCHANGED <<filing_text, max_chunk_size, reader_pc, reader_total,
                   next_index, assembled>>
    /\ UNCHANGED <<fetchVars, docVars>>

\* the reader asks for the chunk count with chunk_index = -1
ReaderAsk ==
    /\ reader_pc = "idle"
    /\ chunk_index' = -1
    /\ result' = summarize_filing(filing_text, -1, max_chunk_size)
    /\ called' = TRUE
    /\ reader_total' = Numbers(result')[1]
    /\ next_index' = 0
    /\ assembled' = <<>>
    /\ reader_pc' = "reading"
    /\ UNCHANGED <<filing_text, max_chunk_size>>
    /\ UNCHANGED <<fetchVars, docVars>>

\* the reader fetches chunk next_index and keeps its body
ReaderRead ==
    /\ reader_pc = "reading"
    /\ next_index < reader_total
    /\ chunk_index' = next_index
    /\ result' = summarize_filing(filing_text, next_index, max_chunk_size)
    /\ assembled' = assembled \o StripMarker(result')
    /\ next_index' = next_index + 1
    /\ called' = TRUE
    /\ UNCHANGED <<filing_text, max_chunk_size, reader_pc, reader_total>>
    /\ UNCHANGED <<fetchVars, docVars>>

\* the reader has asked for every index 0..total-1
ReaderDone ==
    /\ reader_pc = "reading"
    /\ next_index >= reader_total
    /\ reader_pc' = "done"
    /\ UNCHANGED <<filing_text, max_chunk_size, chunk_index, result, called,
                   reader_total, next_index, assembled>>
    /\ UNCHANGED <<fetchVars, docVars>>

NextChunk ==
    \/ \E i \in ChunkIndices : Summarize(i)
    \/ ReaderAsk
    \/ ReaderRead
    \/ ReaderDone

SpecChunk == InitChunk /\ [][NextChunk]_vars

(* ------------------------ claims on the chunker ----------------------- *)

\* ceil(len(T)/M), computed without the program's formula
CeilTotal == CeilDiv(Len(filing_text), max_chunk_size)

\* the total a result states: after "of" in a chunk marker, else the first number
ReportedTotal(res) ==
    IF res[1] = "[Chunk " THEN Numbers(SubSeq(res, 1, MarkerEnd(res)))[2]
    ELSE Numbers(res)[1]

\* C1: the bodies of chunks 0..total-1, markers removed and concatenated in
\* index order, are the extracted text again; after k chunks they are its
\* first min(k*M, len) characters.
C1_RoundTrip ==
    /\ reader_pc \in {"reading", "done"} =>
           assembled = SubSeq(filing_text, 1,
                              Min(next_index * max_chunk_size, Len(filing_text)))
    /\ reader_pc = "done" => assembled = filing_text

C1_Witness ==
    /\ reader_pc = "done"
    /\ reader_total >= 2
    /\ Len(filing_text) % max_chunk_size # 0
    /\ assembled = filing_text

\* C2 (as claimed): every result states the total max(1, ceil(len(T)/M)), so 1
\* for the empty text.
C2_TotalAtLeastOne ==
    called => ReportedTotal(result) = Max(1, CeilTotal)

\* C3: a chunk_index other than -1 outside [0, total-1] gets the
\* "Invalid chunk_index" message stating the range 0..total-1, and no text.
C3_OutOfRange ==
    (called /\ chunk_index # -1 /\ chunk_index \notin 0..(CeilTotal - 1)) =>
        /\ result[1] = "Invalid chunk_index. Filing has "
        /\ Numbers(result) = <<CeilTotal, 0, CeilTotal - 1>>
        /\ ~HasText(result)

C3_Witness ==
    /\ called
    /\ Len(filing_text) >= 2
    /\ chunk_index = CeilTotal
    /\ result[1] = "Invalid chunk_index. Filing has "

\* C4: chunk_index = -1 gets the description of the chunk count only, with
\* no character of the filing text in it.
C4_InfoOnly ==
    (called /\ chunk_index = -1) =>
        /\ result[1] = "Filing has "
        /\ Numbers(result)[1] = CeilTotal
        /\ ~HasText(result)

C4_Witness ==
    /\ called
    /\ chunk_index = -1
    /\ Len(filing_text) >= 2
    /\ result[1] = "Filing has "

\* C5: for 0 <= i <= total-1 the result is the marker "[Chunk i+1 of total] "
\* followed by text[i*M .. min((i+1)*M, len)) and nothing else; the body has
\* between 1 and M characters.
C5_ChunkContent ==
    (called /\ chunk_index \in 0..(CeilTotal - 1)) =>
        LET p      == MarkerEnd(result)
            marker == SubSeq(result, 1, p)
            body   == StripMarker(result)
            lo     == chunk_index * max_chunk_size
            hi     == Min((chunk_index + 1) * max_chunk_size, Len(filing_text))
        IN  /\ p > 0
            /\ marker[1] = "[Chunk "
            /\ Numbers(marker) = <<chunk_index + 1, CeilTotal>>
            /\ \E q \in 2..(p - 1) :
                   /\ marker[q] = " of "
                   /\ \A k \in (2..(p - 1)) \ {q} : IsDigit(marker[k])
            /\ body = [k \in 1..(hi - lo) |-> filing_text[lo + k]]
            /\ Len(body) >= 1
            /\ Len(body) <= max_chunk_size

C5_Witness ==
    /\ called
    /\ chunk_index = 1
    /\ CeilTotal >= 2
    /\ Len(StripMarker(result)) < max_chunk_size
    /\ Len(StripMarker(result)) >= 1

(* ---------------------------- fetch layer ----------------------------- *)

\* what one requests.get can do: deliver a response or raise
Statuses == {200, 404, 429, 500, 503}
NetOutcomes ==
    [kind : {"response"}, status : Statuses, cls : {"None"}]
        \cup [kind : {"exception"}, status : {0},
              cls : {"ConnectionError", "Timeout", "TooManyRedirects"}]

HTTPError(status) == [cls |-> "HTTPError", status |-> status]

\* isinstance(exception, requests.exceptions.RequestException)
IsRequestException(e) ==
    e.cls \in {"ConnectionError", "Timeout", "HTTPError", "TooManyRedirects"}

\* mutant: every HTTP error status is retried
should_retry_any_http(exception) ==
    IF IsRequestException(exception)
    THEN exception.cls \in {"ConnectionError", "Timeout", "HTTPError"}
    ELSE FALSE

should_retry_request(exception) ==
    IF IsRequestException(exception)
    THEN IF exception.cls = "ConnectionError" THEN TRUE
         ELSE IF exception.cls = "Timeout" THEN TRUE
         ELSE IF exception.cls = "HTTPError"
              THEN IF exception.status = 429 THEN TRUE
                   ELSE IF 500 <= exception.status /\ exception.status < 600 THEN TRUE
                   ELSE FALSE
              ELSE FALSE
    ELSE FALSE

\* the body of make_request: requests.get, then response.raise_for_status()
make_request_once(net) ==
    IF net.kind = "exception"
    THEN [ok |-> FALSE, exc |-> [cls |-> net.cls, status |-> 0]]
    ELSE IF 400 <= net.status /\ net.status < 600
    THEN [ok |-> FALSE, exc |-> HTTPError(net.status)]
    ELSE [ok |-> TRUE, exc |-> NoException]

\* mutant: the budget is spent one attempt early
budget_exhausted_early(r) == r + 1 >= max_retries

\* mutant: the budget test lets the last failure through to the sleep
budget_exhausted_late(r) == r > max_retries

\* if retry >= max_retries: raise
budget_exhausted(r) == r >= max_retries

\* random.random(), in units of 1/10000
JitterDraws == {0, 5000, 9999}

\* jitter of 10% spread around the nominal delay instead of added to it
jittered_around(d, j) == d * (95000 + j)

\* delay * (1 + random.random() * 0.1), in 1/100000 of the unit of delay
jittered(d, j) == d * (100000 + j)

Callers == {"make_request", "find_filings"}
FilingTypes == {"<None>", "10-K"}
Counts == {1, 2}

\* a caller enters the wrapper: delay = initial_delay, last_exception = None
Call(c, args) ==
    /\ mr_pc = "idle"
    /\ caller = "none"
    /\ caller' = c
    /\ ff_args' = args
    /\ mr_pc' = "try"
    /\ delay' = initial_delay
    /\ last_exception' = NoException
    /\ retry' = 0
    /\ UNCHANGED <<actual_delay, attempts, failures, sleeps, raised,
                   ff_fetch, ff_response, ff_returned, ff_result>>
    /\ UNCHANGED <<chunkVars, docVars>>

\* one iteration of the wrapper's loop up to its return, raise or sleep
Attempt(net) ==
    /\ mr_pc = "try"
    /\ attempts' = attempts + 1
    /\ LET r == make_request_once(net)
       IN  IF r.ok
           THEN /\ mr_pc' = "returned"
                /\ UNCHANGED <<last_exception, failures, raised, actual_delay>>
           ELSE /\ last_exception' = r.exc
                /\ failures' = Append(failures, r.exc)
                /\ IF ~should_retry_request(r.exc) \/ budget_exhausted(retry)
                   THEN /\ mr_pc' = "raised"
                        /\ raised' = r.exc
                        /\ UNCHANGED actual_delay
                   ELSE /\ mr_pc' = "sleeping"
                        /\ \E j \in JitterDraws : actual_delay' = jittered(delay, j)
                        /\ UNCHANGED raised
    /\ UNCHANGED <<caller, retry, delay, sleeps>>
    /\ UNCHANGED ffVars
    /\ UNCHANGED <<chunkVars, docVars>>

\* time.sleep(actual_delay) ends: delay *= backoff_factor, next iteration;
\* a loop that runs out raises last_exception
Wake ==
    /\ mr_pc = "sleeping"
    /\ sleeps' = Append(sleeps, actual_delay)
    /\ delay' = delay * backoff_factor
    /\ retry' = retry + 1
    /\ IF retry + 1 <= max_retries
       THEN mr_pc' = "try" /\ UNCHANGED raised
       ELSE mr_pc' = "raised" /\ raised' = last_exception
    /\ UNCHANGED <<caller, actual_delay, last_exception, attempts, failures>>
    /\ UNCHANGED ffVars
    /\ UNCHANGED <<chunkVars, docVars>>

(* ---------------------------- find_filings ---------------------------- *)

\* entries, rows and anchors a response body holds, all collections together
MaxItems == 2

\* URLs and hrefs are sequences of pieces; the empty string is <<>>
NoLinkTag == <<"<no link tag>">>
NoHref    == <<"<no href>">>
EmptyHref == <<>>
RelHref   == <<"/cgi-bin/browse-edgar?action=getcompany&type=10-K">>
AbsHref   == <<"https://www.sec.gov", "/Archives/edgar/data/320193/index.htm">>
base_url  == <<"https://www.sec.gov">>

NoTag == "<no tag>"

\* what soup.find_all('entry') finds: the entry's title, updated and link tags
FeedEntries ==
    {[title |-> m[1], updated |-> m[2], link |-> l] :
        m \in {<<"10-K - Annual report", "2024-11-01T16:30:00">>, <<NoTag, NoTag>>},
        l \in {NoLinkTag, NoHref, EmptyHref, AbsHref}}

\* what re.findall(r'<entry>(.*?)</entry>') finds: the matches of the title,
\* updated and link patterns inside each substring (NoTag, NoLinkTag: no match)
RawEntries ==
    {[title |-> m[1], updated |-> m[2], link |-> l] :
        m \in {<<"10-K - Annual report", "2024-11-01T16:30:00">>, <<NoTag, NoTag>>},
        l \in {NoLinkTag, EmptyHref, AbsHref}}

\* an <a> tag: its href (NoHref: no such attribute) and its text
Anchors ==
    {a \in [href : {NoHref, EmptyHref, RelHref, AbsHref},
            text : {"10-K", "Filing index", "Home"}] :
        a.href \in {NoHref, EmptyHref} => a.text = "Filing index"}

NoAnchor == [href |-> NoHref, text |-> "<no anchor>"]

\* a <tr>: its number of <td> cells, the text of cells[0] and cells[3], and
\* the first <a> with an href in its cells
Rows ==
    {r \in [ncells : {2, 3, 4}, type_cell : {"10-K", "8-K"}, date_cell : {"2024-11-01"},
            anchor : {NoAnchor,
                      [href |-> RelHref, text |-> "Home"],
                      [href |-> AbsHref, text |-> "Filing index"],
                      [href |-> EmptyHref, text |-> "10-K"]}] :
        r.ncells = 2 => (r.type_cell = "10-K" /\ r.anchor.href = RelHref)}

SeqsOfLen(S, n) == {q \in SeqsUpTo(S, n) : Len(q) = n}

\* response bodies: whether the text contains 'xml', and what the parser and
\* the patterns find in it
Bodies ==
    UNION {
        [xml : BOOLEAN, feed : SeqsOfLen(FeedEntries, n[1]), raw : SeqsOfLen(RawEntries, n[2]),
         rows : SeqsOfLen(Rows, n[3]), anchors : SeqsOfLen(Anchors, n[4])] :
        n \in {m \in (0..MaxItems) \X (0..MaxItems) \X (0..MaxItems) \X (0..MaxItems) :
                  m[1] + m[2] + m[3] + m[4] <= MaxItems} }

\* filing_type.lower() in s.lower(), for the strings of the model
TypeIn(filing_type, s) ==
    /\ filing_type = "10-K"
    /\ s \in {"10-K", "10-K - Annual report", "/cgi-bin/browse-edgar?action=getcompany&type=10-K"}

\* "filing" in text.lower() or "document" in text.lower()
GenericText(text) == text \in {"Filing index"}

\* href.startswith('http')
StartsWithHttp(href) == href # <<>> /\ href[1] \in {"https://www.sec.gov"}

\* relative links are rebased against the base URL
Rebase(href) == IF StartsWithHttp(href) THEN href ELSE base_url \o href

\* mutant: a failed fetch yields the empty list
fetch_failed_empty(e) == <<>>

\* str(e)
ExcStr(e) == IF e.cls = "HTTPError" THEN Decimal(e.status) \o <<" HTTPError">> ELSE <<e.cls>>

\* return [{"error": f"Failed to retrieve filings: {str(e)}"}]
fetch_failed_result(e) == <<[error |-> <<"Failed to retrieve filings: ">> \o ExcStr(e)]>>

AttributeError == <<"'dict' object has no attribute 'attrs'">>

\* SimpleEntry(title, updated, link) of each <entry> substring
manual_entries(raw) ==
    [i \in 1..Len(raw) |->
        [shim    |-> TRUE,
         title   |-> IF raw[i].title = NoTag THEN "Unknown" ELSE raw[i].title,
         updated |-> IF raw[i].updated = NoTag THEN "Unknown" ELSE raw[i].updated,
         link    |-> raw[i].link]]

parsed_entries(feed) ==
    [i \in 1..Len(feed) |->
        [shim |-> FALSE, title |-> feed[i].title, updated |-> feed[i].updated,
         link |-> feed[i].link]]

\* the entries the tiers 1 and 2 hand to the processing loop
found_entries(body) ==
    IF body.feed = <<>> /\ body.xml /\ body.raw # <<>>
    THEN manual_entries(body.raw)
    ELSE parsed_entries(body.feed)

\* entry.find('link') is truthy: a tag, or the shim's {'href': link} dict
FindLinkTruthy(e) ==
    IF e.shim THEN e.link \notin {NoLinkTag, EmptyHref} ELSE e.link # NoLinkTag

\* evaluating "'href' in entry.find('link').attrs" raises for the shim's dict
LinkRaises(e) == e.shim /\ FindLinkTruthy(e)

\* entry.find('link')['href'] if entry.find('link') and 'href' in ....attrs else None
EntryLink(e) ==
    IF FindLinkTruthy(e) /\ e.link # NoHref THEN e.link ELSE NoHref

EntryFiling(e) ==
    [title       |-> IF e.title = NoTag THEN "Unknown" ELSE e.title,
     filing_date |-> IF e.updated = NoTag THEN "Unknown" ELSE e.updated,
     link        |-> EntryLink(e)]

\* the loop over entries; an exception in it reaches the outer handler
process_entries(entries) ==
    IF \E i \in 1..Len(entries) : LinkRaises(entries[i])
    THEN <<[error |-> <<"Failed to retrieve filings: ">> \o AttributeError]>>
    ELSE LET HasLink(e) == EntryLink(e) \notin {NoHref, EmptyHref}
             kept == SelectSeq(entries, HasLink)
         IN  [i \in 1..Len(kept) |-> EntryFiling(kept[i])]

\* tier 3: table rows with at least 3 cells and a link
row_filings(rows, filing_type) ==
    LET Takes(r) ==
            /\ r.ncells >= 3
            /\ r.anchor.href # NoHref
            /\ (filing_type # "<None>" => TypeIn(filing_type, r.type_cell))
        kept == SelectSeq(rows, Takes)
    IN  [i \in 1..Len(kept) |->
            [title       |-> kept[i].type_cell,
             filing_date |-> IF kept[i].ncells > 3 THEN kept[i].date_cell ELSE "",
             link        |-> Rebase(kept[i].anchor.href)]]

\* soup.find_all('a'): the anchors of the table rows, then the others
all_links(body) ==
    LET InRow(r) == r.anchor # NoAnchor
        withA == SelectSeq(body.rows, InRow)
    IN  [i \in 1..Len(withA) |-> withA[i].anchor] \o body.anchors

\* tier 4: hyperlinks whose text or href names the filing type, or whose
\* text says "filing" or "document"
link_filings(links, filing_type) ==
    LET Takes(a) ==
            /\ a.href \notin {NoHref, EmptyHref}
            /\ \/ (filing_type # "<None>" /\ TypeIn(filing_type, a.text))
               \/ (filing_type # "<None>" /\ TypeIn(filing_type, a.href[1]))
               \/ GenericText(a.text)
        kept == SelectSeq(links, Takes)
    IN  [i \in 1..Len(kept) |->
            [title |-> kept[i].text, filing_date |-> "Unknown",
             link |-> Rebase(kept[i].href)]]

\* find_filings after a successful fetch
find_filings_parse(body, filing_type) ==
    LET entries == found_entries(body)
    IN  IF entries = <<>>
        THEN LET t3 == row_filings(body.rows, filing_type)
                 t4 == link_filings(all_links(body), filing_type)
             IN  IF body.rows # <<>> /\ t3 # <<>> THEN t3
                 ELSE IF t4 # <<>> THEN t4
                 ELSE <<>>
        ELSE process_entries(entries)

\* the wrapper's frame is gone once it has returned or raised
WrapperLeft ==
    /\ mr_pc' = "idle"
    /\ retry' = 0
    /\ delay' = initial_delay
    /\ actual_delay' = 0
    /\ last_exception' = NoException
    /\ attempts' = 0
    /\ failures' = <<>>
    /\ sleeps' = <<>>

\* find_filings' fetch raised: the handler returns the error marker
FindFilingsFailed ==
    /\ caller = "find_filings"
    /\ mr_pc = "raised"
    /\ ff_fetch' = "failed"
    /\ ff_result' = fetch_failed_result(raised)
    /\ ff_returned' = TRUE
    /\ WrapperLeft
    /\ UNCHANGED <<caller, raised, ff_args, ff_response>>
    /\ UNCHANGED <<chunkVars, docVars>>

\* response = make_request(url, headers) returned
FindFilingsFetched ==
    /\ caller = "find_filings"
    /\ mr_pc = "returned"
    /\ ff_fetch' = "ok"
    /\ WrapperLeft
    /\ UNCHANGED <<caller, raised, ff_args, ff_response, ff_returned, ff_result>>
    /\ UNCHANGED <<chunkVars, docVars>>

\* the response body is parsed and the tiers run, up to find_filings' return
FindFilingsParse ==
    /\ caller = "find_filings"
    /\ ff_fetch = "ok"
    /\ ~ff_returned
    /\ \E body \in Bodies :
           /\ ff_response' = body
           /\ ff_result' = find_filings_parse(body, ff_args.filing_type)
    /\ ff_returned' = TRUE
    /\ UNCHANGED <<ff_args, ff_fetch>>
    /\ UNCHANGED wrapperVars
    /\ UNCHANGED <<chunkVars, docVars>>

InitFetch ==
    /\ ChunkIdle
    /\ FetchIdle
    /\ DocIdle

NextFetch ==
    \/ Call("make_request", NoArgs)
    \/ \E t \in FilingTypes, c \in Counts :
           Call("find_filings", [filing_type |-> t, count |-> c])
    \/ \E net \in NetOutcomes : Attempt(net)
    \/ Wake
    \/ FindFilingsFailed
    \/ FindFilingsFetched
    \/ FindFilingsParse

SpecFetch == InitFetch /\ [][NextFetch]_vars

(* ---------------------- claims on the fetch layer --------------------- *)

\* the failures the retry policy names: connection error, timeout, 429, 5xx
Transient(e) ==
    \/ e.cls \in {"ConnectionError", "Timeout"}
    \/ e.cls = "HTTPError" /\ (e.status = 429 \/ e.status \in 500..599)

Terminated == mr_pc \in {"returned", "raised"}

AllFailed503 ==
    /\ attempts >= 1
    /\ Len(failures) = attempts
    /\ \A i \in 1..Len(failures) : failures[i] = HTTPError(503)

\* C6: no call makes more than max_retries + 1 requests; a call whose every
\* attempt fails with HTTP 503 ends after exactly max_retries + 1 requests by
\* raising the HTTP error of its last attempt.
C6_RetryCeiling ==
    /\ attempts <= max_retries + 1
    /\ (Terminated /\ AllFailed503) =>
           /\ mr_pc = "raised"
           /\ attempts = max_retries + 1
           /\ raised = failures[Len(failures)]
           /\ raised = HTTPError(503)

C6_Witness ==
    /\ mr_pc = "raised"
    /\ AllFailed503
    /\ attempts = 4

\* C7: a failed attempt is followed by a sleep and another attempt only if the
\* failure is transient and the budget is not spent; any other failure is
\* raised at once, with no sleep after it, so after one attempt when it is the
\* first failure. Of the HTTP error statuses exactly 429 and 5xx are retried.
C7_RetryOnlyTransient ==
    /\ \A i \in 1..(Len(failures) - 1) : Transient(failures[i])
    /\ mr_pc \in {"try", "sleeping", "returned"} =>
           \A i \in 1..Len(failures) : Transient(failures[i])
    /\ mr_pc = "sleeping" => retry < max_retries
    /\ (mr_pc = "raised" /\ ~Transient(failures[Len(failures)])) =>
           /\ raised = failures[Len(failures)]
           /\ attempts = Len(failures)
           /\ Len(sleeps) = Len(failures) - 1
           /\ (Len(failures) = 1 => attempts = 1 /\ sleeps = <<>>)
    /\ \A st \in 400..599 :
           should_retry_request(HTTPError(st)) <=> (st = 429 \/ st >= 500)

C7_Witness ==
    /\ mr_pc = "raised"
    /\ failures = <<HTTPError(404)>>
    /\ attempts = 1
    /\ sleeps = <<>>

IsErrorMarker(r) == "error" \in DOMAIN r

IsFilingReference(r) ==
    /\ DOMAIN r = {"title", "filing_date", "link"}
    /\ r.link # <<>>
    /\ r.link # NoHref

\* C8: when the fetch of the listing fails, find_filings returns a list of
\* exactly one element, which has an error key.
C8_FetchFailureMarker ==
    (ff_returned /\ ff_fetch = "failed") =>
        /\ Len(ff_result) = 1
        /\ IsErrorMarker(ff_result[1])

C8_Witness ==
    /\ ff_returned
    /\ ff_fetch = "failed"
    /\ raised = HTTPError(503)
    /\ Len(ff_result) = 1

\* C9 (as claimed): after a successful fetch find_filings returns no error
\* marker, whatever the body: every element is a FilingReference with title,
\* filing_date and a non-empty link.
C9_NoMarkerAfterFetch ==
    (ff_returned /\ ff_fetch = "ok") =>
        \A i \in 1..Len(ff_result) :
            ~IsErrorMarker(ff_result[i]) /\ IsFilingReference(ff_result[i])

\* the structured parse finds no entry, the text contains 'xml', and an
\* <entry>...</entry> substring with a link is recoverable
RecoverableEntries(body) ==
    /\ body.feed = <<>>
    /\ body.xml
    /\ \E i \in 1..Len(body.raw) : body.raw[i].link = AbsHref

\* C10 (as claimed): with no feed entry but recoverable <entry> substrings
\* with a link, find_filings returns at least one FilingReference.
C10_TierTwoRecovers ==
    (ff_returned /\ ff_fetch = "ok" /\ RecoverableEntries(ff_response)) =>
        \E i \in 1..Len(ff_result) : IsFilingReference(ff_result[i])

\* ---------------------------------------------------------------------
\* find_filings: the size of the result against the requested count

\* number of FilingReferences in a result list
FilingCount(res) ==
    Cardinality({i \in 1..Len(res) : IsFilingReference(res[i])})

\* C11 (as claimed): find_filings returns at most `count` FilingReferences,
\* whichever tier produced them and however many entries, rows or links
\* the response holds.
C11_AtMostCount ==
    (ff_returned /\ ff_fetch = "ok") => FilingCount(ff_result) <= ff_args.count

(* ------------------------------ find_cik ------------------------------ *)
\* src/filingsResearch/get_company_cik.py.  A line of the lookup page is a
\* sequence of tokens: one token per digit, " " for one whitespace
\* character, and one token per run of other characters.

Blank == " "
Newline == "\n"
Tab == "\t"
\* the characters \s and str.strip() take as whitespace, of those the texts hold
WhiteSpace == {Blank, Newline, Tab}
AppleCik == <<"0", "0", "0", "0", "3", "2", "0", "1", "9", "3">>
ShortCik == <<"3", "2", "0", "1", "9", "3">>

\* lines a <pre> block of the lookup page may hold
CikLines ==
    { <<>>,
      <<Blank>>,
      <<"CIK Code", Blank, Blank, "Company Name">>,
      AppleCik \o <<Blank, Blank, "APPLE INC">>,
      <<Blank>> \o AppleCik \o <<Blank, "Company Name", Blank, "Holdings">>,
      ShortCik \o <<Blank, "APPLE INC">>,
      AppleCik }

\* the parsed lookup page: whether some string of it holds 'No matching
\* companies', whether it has a <pre> block, and the lines of its <pre> blocks
CikPages ==
    { [notice |-> n, has_pre |-> TRUE, lines |-> l] :
          n \in BOOLEAN, l \in SeqsUpTo(CikLines, MaxItems) }
    \cup { [notice |-> n, has_pre |-> FALSE, lines |-> <<>>] : n \in BOOLEAN }

CikStatuses == {200, 201, 404, 429, 503}

\* what requests.post(url, headers=headers, data=data) produces
CikNetOutcomes ==
    { [kind |-> "response", status |-> s, page |-> p] :
          s \in CikStatuses, p \in CikPages }
    \cup { [kind |-> "exception", cls |-> c] :
          c \in {"ConnectionError", "Timeout"} }

\* str.lstrip(chars) / str.rstrip(chars)
RECURSIVE LStrip(_, _)
LStrip(line, chars) ==
    IF line # <<>> /\ Head(line) \in chars THEN LStrip(Tail(line), chars) ELSE line

RECURSIVE RStrip(_, _)
RStrip(line, chars) ==
    IF line # <<>> /\ line[Len(line)] \in chars
    THEN RStrip(SubSeq(line, 1, Len(line) - 1), chars)
    ELSE line

\* str.strip()
Strip(line) == RStrip(LStrip(line, WhiteSpace), WhiteSpace)

Contains(line, tok) == \E i \in 1..Len(line) : line[i] = tok

\* positions where r'(\d{10})\s+(.+)$' matches in a stripped line
CikMatchStarts(line) ==
    { i \in 1..Len(line) :
          /\ i + 11 <= Len(line)
          /\ \A k \in i..(i + 9) : IsDigit(line[k])
          /\ line[i + 10] = Blank }

\* the dict appended for a line that matches at its leftmost position
cik_entry(line) ==
    LET i == CHOOSE j \in CikMatchStarts(line) :
                 \A k \in CikMatchStarts(line) : j <= k
        cik == SubSeq(line, i, i + 9)
        rest == SubSeq(line, i + 10, Len(line))
    IN  [CIK |-> cik,
         Company |-> Strip(rest),
         Link |-> <<"https://www.sec.gov/browse-edgar?action=getcompany&CIK=">>
                      \o LStrip(cik, {"0"})]

\* the loop over the lines of all <pre> blocks
RECURSIVE cik_results(_)
cik_results(lines) ==
    IF lines = <<>> THEN <<>>
    ELSE LET line == Head(lines)
             skipped == \/ Strip(line) = <<>>
                        \/ Contains(line, "CIK Code")
                        \/ Contains(line, "Company Name")
         IN  IF ~skipped /\ CikMatchStarts(Strip(line)) # {}
             THEN <<cik_entry(Strip(line))>> \o cik_results(Tail(lines))
             ELSE cik_results(Tail(lines))

\* the status test with only server errors counted as failures
request_failed_5xx(status) == status >= 500

\* if response.status_code != 200: return []
request_failed(status) == status # 200

\* find_cik from the response on
find_cik_parse(status, page) ==
    IF request_failed(status) THEN <<>>
    ELSE IF page.notice THEN <<>>
    ELSE IF page.has_pre THEN cik_results(page.lines)
    ELSE <<>>

\* response = requests.post(...): one request, outside any try block
CikPost(net) ==
    /\ cik_pc = "idle"
    /\ cik_net' = net
    /\ cik_posts' = cik_posts + 1
    /\ cik_pc' = IF net.kind = "exception" THEN "raised" ELSE "posted"
    /\ UNCHANGED cik_result
    /\ UNCHANGED otherThanCik

\* the status test, the parse and the return
CikParse ==
    /\ cik_pc = "posted"
    /\ cik_result' = find_cik_parse(cik_net.status, cik_net.page)
    /\ cik_pc' = "returned"
    /\ UNCHANGED <<cik_net, cik_posts>>
    /\ UNCHANGED otherThanCik

InitCik ==
    /\ ChunkIdle
    /\ FetchIdle
    /\ DocIdle

NextCik ==
    \/ \E net \in CikNetOutcomes : CikPost(net)
    \/ CikParse

SpecCik == InitCik /\ [][NextCik]_vars

Non2xx(status) == status < 200 \/ status > 299

HasCikEntry(page) ==
    /\ page.has_pre
    /\ \E i \in 1..Len(page.lines) : CikMatchStarts(Strip(page.lines[i])) # {}

\* C12: when the lookup answers with a non-2xx status, or reports no
\* matching company, find_cik returns the empty list and does not raise.
C12_CikEmptyNotRaised ==
    /\ (cik_net.kind = "response") => cik_pc # "raised"
    /\ (/\ cik_pc = "returned"
        /\ (Non2xx(cik_net.status) \/ cik_net.page.notice))
           => cik_result = <<>>

C12_Witness ==
    /\ cik_pc = "returned"
    /\ cik_net.status = 404
    /\ ~cik_net.page.notice
    /\ HasCikEntry(cik_net.page)
    /\ cik_result = <<>>

(* ------------------------- document resolver -------------------------- *)
\* extract_filing_text, lines 578-668: the file table of the index page and
\* the priority cascade over it.  The text of a cell is a sequence of
\* tokens: Blank for one whitespace character, and one token per word,
\* number or extension, so that `x in text` is token containment and a
\* regular expression is a test on the tokens.

\* str.lower(), on the tokens that hold upper-case letters
Lower(tok) ==
    CASE tok = "10-K" -> "10-k"
      [] tok = "Exhibit" -> "exhibit"
      [] tok = "FORM" -> "form"
      [] OTHER -> tok

\* cell.text.strip().lower()
CellText(cell_text) ==
    LET t == Strip(cell_text) IN [i \in 1..Len(t) |-> Lower(t[i])]

EndsWith(t, tok) == t # <<>> /\ t[Len(t)] = tok

\* pat in text, for a pattern of several tokens
ContainsSeq(t, pat) ==
    \E i \in 1..Len(t) :
        i + Len(pat) - 1 <= Len(t) /\ SubSeq(t, i, i + Len(pat) - 1) = pat

\* 10-?k
IsTenK(tok) == tok \in {"10-k", "10k"}
\* 20\d{2}
IsYear(tok) == tok \in {"2023", "2024"}
\* (0[1-9]|1[0-2])(0[1-9]|[12]\d|3[01])
IsMonthDay(tok) == tok \in {"0930", "1231"}

NoExhibit(t) == ~Contains(t, "exhibit")
AnnualReport == <<"annual", Blank, "report">>
FormTenK == <<"form", Blank, "10-k">>
CompleteSubmission == <<"complete", Blank, "submission">>

\* file_priorities[k - 1](cell), on t = cell.text.strip().lower()
priority_check(k, t) ==
    CASE k = 1 -> t = <<"10-k">> /\ EndsWith(t, ".htm")
      [] k = 2 -> t = FormTenK /\ EndsWith(t, ".htm")
      [] k = 3 -> Len(t) >= 3 /\ t[1] = "aapl-" /\ IsTenK(t[2]) /\ EndsWith(t, ".htm")
      [] k = 4 -> Len(t) = 3 /\ t[1] = "aapl-" /\ IsYear(t[2]) /\ t[3] = ".htm"
      [] k = 5 -> /\ Len(t) = 4 /\ t[1] = "aapl-" /\ IsYear(t[2])
                  /\ IsMonthDay(t[3]) /\ t[4] = ".htm"
      [] k = 6 -> Len(t) = 2 /\ IsTenK(t[1]) /\ t[2] = ".htm"
      [] k = 7 -> Len(t) = 3 /\ t[1] = "form" /\ IsTenK(t[2]) /\ t[3] = ".htm"
      [] k = 8 -> Len(t) = 3 /\ IsTenK(t[1]) /\ IsYear(t[2]) /\ t[3] = ".htm"
      [] k = 9 -> /\ Contains(t, "10-k") /\ NoExhibit(t)
                  /\ ~ContainsSeq(t, CompleteSubmission) /\ EndsWith(t, ".htm")
      [] k = 10 -> ContainsSeq(t, AnnualReport) /\ NoExhibit(t) /\ EndsWith(t, ".htm")
      [] k = 11 -> ContainsSeq(t, FormTenK) /\ NoExhibit(t) /\ EndsWith(t, ".htm")
      [] k = 12 -> /\ Contains(t, "10-k") /\ Contains(t, "form")
                   /\ NoExhibit(t) /\ EndsWith(t, ".htm")
      [] k = 13 -> /\ Contains(t, "annual") /\ Contains(t, "report")
                   /\ NoExhibit(t) /\ EndsWith(t, ".htm")
      [] k = 14 -> Contains(t, "10-k") /\ ContainsSeq(t, CompleteSubmission)
      [] k = 15 -> EndsWith(t, ".htm") /\ ~EndsWith(t, ".html") /\ NoExhibit(t)
      [] k = 16 -> Contains(t, "document") /\ NoExhibit(t) /\ EndsWith(t, ".htm")
      [] k = 17 -> EndsWith(t, ".htm") /\ NoExhibit(t)
      [] k = 18 -> EndsWith(t, ".htm")
      [] k = 19 -> EndsWith(t, ".html")
      [] OTHER -> TRUE

\* len(file_priorities)
RuleCount == 20

DocDir == "/Archives/edgar/data/320193/000032019323000106/"

\* the third cell of a row: its text and the file its link names
IndexCells ==
    { [text |-> <<"10-K">>, file |-> <<"filing", ".htm">>],
      [text |-> <<"aapl-", "10-k", ".htm">>, file |-> <<"aapl-", "10-k", ".htm">>],
      [text |-> <<"aapl-", "10-k", "exhibit", ".htm">>,
       file |-> <<"aapl-", "10-k", "exhibit", ".htm">>],
      [text |-> <<Blank, "aapl-", "2023", "0930", ".htm">>,
       file |-> <<"aapl-", "2023", "0930", ".htm">>],
      [text |-> <<"10-k", ".htm">>, file |-> <<"10-k", ".htm">>],
      [text |-> <<"FORM", Blank, "10-K", Blank, "annual", Blank, "report", ".htm">>,
       file |-> <<"annual", ".htm">>],
      [text |-> <<"10-K", Blank, "complete", Blank, "submission", Blank, "text", ".txt">>,
       file |-> <<"0000320193-23-000106", ".txt">>],
      [text |-> <<"main", ".htm">>, file |-> <<"main", ".htm">>],
      [text |-> <<"Exhibit", "99", ".htm">>, file |-> <<"exhibit", "99", ".htm">>],
      [text |-> <<"report", ".html">>, file |-> <<"report", ".html">>],
      [text |-> <<"main", ".txt">>, file |-> <<"main", ".txt">>],
      [text |-> <<>>, file |-> <<"Financial_Report", ".xlsx">>] }

\* a <tr>: how many <td> it has, the text of the third one, and the href of
\* the first <a> in it (NoLinkTag: no <a>; NoHref: an <a> without href)
IndexRows ==
    { [ncells |-> 3, text |-> c.text, href |-> <<DocDir>> \o c.file] : c \in IndexCells }
    \cup { [ncells |-> 3, text |-> c.text, href |-> h] :
               c \in IndexCells, h \in {NoHref, EmptyHref} }
    \cup { [ncells |-> 2, text |-> <<"main", ".htm">>,
            href |-> <<DocDir, "main", ".htm">>],
           [ncells |-> 3, text |-> <<"main", ".htm">>, href |-> NoLinkTag] }

IndexTables == SeqsUpTo(IndexRows, MaxItems)

\* a value that `if document_link:` takes as true
Truthy(link) == link # NoDocumentLink /\ link # EmptyHref

\* the rows the inner loop stops at for one rule: at least three cells, the
\* rule holds on the third, and that cell has an <a> with an href
RuleRows(k, rows) ==
    { i \in 1..Len(rows) :
          /\ rows[i].ncells >= 3
          /\ priority_check(k, CellText(rows[i].text))
          /\ rows[i].href \notin {NoLinkTag, NoHref} }

\* for priority_check in file_priorities: ... (lines 656-668)
RECURSIVE cascade(_, _, _)
cascade(k, rows, cur) ==
    IF k > RuleCount \/ Truthy(cur.link) THEN cur
    ELSE IF RuleRows(k, rows) = {} THEN cascade(k + 1, rows, cur)
    ELSE LET i == CHOOSE j \in RuleRows(k, rows) :
                      \A m \in RuleRows(k, rows) : j <= m
         IN  cascade(k + 1, rows, [link |-> rows[i].href, row |-> i, rule |-> k])

resolve(rows) == cascade(1, rows, [link |-> NoDocumentLink, row |-> 0, rule |-> 0])

\* the cascade runs over the table
Resolve ==
    /\ res_pc = "idle"
    /\ res_pc' = "resolved"
    /\ document_link' = resolve(idx_rows).link
    /\ sel_row' = resolve(idx_rows).row
    /\ sel_rule' = resolve(idx_rows).rule
    /\ UNCHANGED idx_rows
    /\ UNCHANGED otherThanResolve

InitResolve ==
    /\ ChunkIdle
    /\ FetchIdle
    /\ CikIdle
    /\ CleanIdle
    /\ ExtractIdle
    /\ ConcIdle
    /\ idx_rows \in IndexTables
    /\ res_pc = "idle"
    /\ document_link = NoDocumentLink
    /\ sel_row = 0
    /\ sel_rule = 0

NextResolve == Resolve

SpecResolve == InitResolve /\ [][NextResolve]_vars

\* a row a rule can take a link from
Candidate(r) == r.ncells >= 3 /\ Truthy(r.href) /\ r.href \notin {NoLinkTag, NoHref}

\* the cell reads exactly the category code and links an .htm file
Tier1Row(r) ==
    Candidate(r) /\ CellText(r.text) = <<"10-k">> /\ EndsWith(r.href, ".htm")

\* a non-exhibit .htm row that no rule before the seventh priority matches
OnlyTier6Row(r) ==
    /\ Candidate(r)
    /\ \E k \in 15..17 : priority_check(k, CellText(r.text))
    /\ \A k \in 1..14 : ~priority_check(k, CellText(r.text))

\* C13 (as claimed): when the table has a tier-1 row and a row matching
\* only tier 6, the resolver takes the tier-1 row's link, in either order.
C13_TierOneFirst ==
    (/\ res_pc = "resolved"
     /\ \E i \in 1..Len(idx_rows) : Tier1Row(idx_rows[i])
     /\ \E j \in 1..Len(idx_rows) : OnlyTier6Row(idx_rows[j]))
        => /\ sel_row # 0
           /\ Tier1Row(idx_rows[sel_row])
           /\ document_link = idx_rows[sel_row].href

ExhibitRow(r) == Contains(CellText(r.text), "exhibit")

\* C14 (as claimed): whenever some non-exhibit row satisfies a rule before
\* the last one (any file with a link), no exhibit row is selected.
C14_ExhibitOnlyLast ==
    (/\ res_pc = "resolved"
     /\ \E j \in 1..Len(idx_rows) :
            /\ Candidate(idx_rows[j])
            /\ ~ExhibitRow(idx_rows[j])
            /\ \E k \in 1..(RuleCount - 1) :
                   priority_check(k, CellText(idx_rows[j].text)))
        => ~(sel_row # 0 /\ ExhibitRow(idx_rows[sel_row]))

(* ------------------------------ cleanup ------------------------------- *)
\* text_content = re.sub(r'\n{3,}', '\n\n', text_content)
\* text_content = re.sub(r'\s{3,}', ' ', text_content)
\* on texts of one token per character

CleanAlphabet == {"x", Blank, Newline}

\* longest text the cleanup is run on
MaxText == 6
CleanTexts == SeqsUpTo(CleanAlphabet, MaxText)

\* length of the longest prefix of t made of characters of S
RunLen(t, S) ==
    CHOOSE n \in 0..Len(t) :
        /\ \A i \in 1..n : t[i] \in S
        /\ (n = Len(t) \/ t[n + 1] \notin S)

\* re.sub of S{3,} by rep: every maximal run of three or more is replaced
RECURSIVE collapse(_, _, _)
collapse(t, S, rep) ==
    IF t = <<>> THEN <<>>
    ELSE LET n == RunLen(t, S)
         IN  IF n = 0 THEN <<Head(t)>> \o collapse(Tail(t), S, rep)
             ELSE (IF n >= 3 THEN rep ELSE SubSeq(t, 1, n))
                      \o collapse(SubSeq(t, n + 1, Len(t)), S, rep)

\* re.sub of S{3} by rep: three characters at a time
RECURSIVE collapse_three(_, _, _)
collapse_three(t, S, rep) ==
    IF t = <<>> THEN <<>>
    ELSE IF RunLen(t, S) >= 3
         THEN rep \o collapse_three(SubSeq(t, 4, Len(t)), S, rep)
         ELSE <<Head(t)>> \o collapse_three(Tail(t), S, rep)

collapse_whitespace_three(t) == collapse_three(t, WhiteSpace, <<Blank>>)

\* re.sub(r'\s{3,}', ' ', text_content)
collapse_whitespace(t) == collapse(t, WhiteSpace, <<Blank>>)

\* re.sub(r'\n{3,}', '\n\n', text_content)
collapse_newlines(t) == collapse(t, {Newline}, <<Newline, Newline>>)

cleanup(t) == collapse_whitespace(collapse_newlines(t))

\* the cleanup runs on the extracted text
CleanFirst ==
    /\ clean_pc = "raw"
    /\ cleaned_once' = cleanup(raw_text)
    /\ clean_pc' = "once"
    /\ UNCHANGED raw_text
    /\ UNCHANGED otherThanClean

InitCleanup ==
    /\ ChunkIdle
    /\ FetchIdle
    /\ CikIdle
    /\ ResolveIdle
    /\ ExtractIdle
    /\ ConcIdle
    /\ raw_text \in CleanTexts
    /\ clean_pc = "raw"
    /\ cleaned_once = <<>>

NextCleanup == CleanFirst

SpecCleanup == InitCleanup /\ [][NextCleanup]_vars

\* a run of n or more consecutive characters of S
HasRun(t, S, n) ==
    \E i \in 1..Len(t) :
        i + n - 1 <= Len(t) /\ \A k \in i..(i + n - 1) : t[k] \in S

\* C20: the cleanup is idempotent: run on an already cleaned text it
\* returns that text unchanged.
C20_CleanupIdempotent ==
    (clean_pc = "once") => cleanup(cleaned_once) = cleaned_once

\* a text with a run of five whitespace characters has been cleaned
C20_Witness ==
    /\ clean_pc = "once"
    /\ HasRun(raw_text, WhiteSpace, 5)
    /\ cleaned_once # raw_text

(* -------------------------- extract_filing_text ----------------------- *)
\* src/filingsResearch/sec_filings.py, lines 408-1106.
\*
\* A URL is a sequence of pieces: the host, "/ix?doc=", a directory ending
\* in "/", and the tokens of a file name.  A text is a sequence of tokens:
\* one token per whitespace character, one per word, and "proseN" tokens
\* that stand for N characters of running prose (single spaces only, no
\* marker phrase).  A parsed page is the sequence of its elements in
\* document order, each with the one string it holds; get_text is computed
\* as by Beautiful Soup 4.9 and later, where the strings inside <script>
\* and <style> are not text of the enclosing element.

Host == "https://www.sec.gov"
IxPrefix == "/ix?doc="
\* a directory named by the accession number with its dashes
DashedDir == "/Archives/edgar/data/320193/0000320193-23-000106/"
ArchiveDirs == {DocDir, DashedDir}
Extensions == {".htm", ".html", ".txt", ".xlsx"}

\* '/ix?doc=' in url
HasIx(url) == Contains(url, IxPrefix)
\* '/Archives/edgar/data/' in url
InArchives(url) == \E i \in 1..Len(url) : url[i] \in ArchiveDirs
\* re.search(r'/(\d{10}-\d{2}-\d{6})/', url)
AccMatch(url) == Contains(url, DashedDir)
\* re.search(r'/data/(\d+)/', url)
CikMatch(url) == InArchives(url)

\* position of the last piece of url that ends in "/", 0 if there is none
LastDir(url) ==
    LET dirs == {i \in 1..Len(url) : url[i] \in ArchiveDirs \cup {"/"}}
    IN  IF dirs = {} THEN 0 ELSE CHOOSE i \in dirs : \A j \in dirs : j <= i

\* '/'.join(url.split('/')[:-1]) + '/'
UrlDir(url) ==
    IF LastDir(url) = 0 THEN <<Host, "/">> ELSE SubSeq(url, 1, LastDir(url))

\* os.path.basename(href)
Basename(href) == SubSeq(href, LastDir(href) + 1, Len(href))

\* re.search(r'/ix\?doc=(/Archives/edgar/data/[^"&]+)', filing_url)
NestedMatch(url) ==
    \E i \in 1..Len(url) :
        url[i] = IxPrefix /\ i < Len(url) /\ url[i + 1] \in ArchiveDirs

\* f"https://www.sec.gov{doc_url_match.group(1)}"
NestedUrl(url) ==
    LET i == CHOOSE j \in 1..Len(url) :
                 url[j] = IxPrefix /\ j < Len(url) /\ url[j + 1] \in ArchiveDirs
    IN  <<Host>> \o SubSeq(url, i + 1, Len(url))

\* lines 751-756: document_url from document_link
document_url_of(filing, link) ==
    IF StartsWithHttp(link) THEN link ELSE UrlDir(filing) \o link

\* number of characters a token stands for: a stand-in for a stretch of text
\* counts the stretch, every other token is the text itself
TokLen(tok) ==
    CASE tok = "prose60" -> 60
      [] tok = "prose150" -> 150
      [] tok = "prose600" -> 600
      [] tok = "prose1200" -> 1200
      [] tok = "prose6000" -> 6000
      [] tok = "prose12000" -> 12000
      [] tok = "image:data" -> 12000
      [] tok = "script:payload" -> 40
      [] tok = "style:payload" -> 40
      [] OTHER -> Len(tok)

\* len(text)
RECURSIVE TextLen(_)
TextLen(t) == IF t = <<>> THEN 0 ELSE TokLen(Head(t)) + TextLen(Tail(t))

\* len(text.strip())
StripLen(t) == TextLen(Strip(t))

\* str.upper() of one token.  The tokens listed are those of the pages that
\* hold a lower-case letter; a stand-in for a stretch of text stays as it
\* is, its stretch holding none of the phrases looked for.
Upper(tok) ==
    CASE tok = "Item 1. Business" -> "ITEM 1. BUSINESS"
      [] tok = "Item 1A. Risk Factors" -> "ITEM 1A. RISK FACTORS"
      [] tok = "Item 7. Management's Discussion" -> "ITEM 7. MANAGEMENT'S DISCUSSION"
      [] tok = "Item 7. Management" -> "ITEM 7. MANAGEMENT"
      [] tok = "Item 8. Financial Statements" -> "ITEM 8. FINANCIAL STATEMENTS"
      [] tok = "Annual" -> "ANNUAL"
      [] tok = "Report" -> "REPORT"
      [] tok = "annual" -> "ANNUAL"
      [] tok = "report" -> "REPORT"
      [] tok = "Exhibit" -> "EXHIBIT"
      [] tok = "exhibit" -> "EXHIBIT"
      [] tok = "main" -> "MAIN"
      [] tok = "aapl-" -> "AAPL-"
      [] tok = "10-k" -> "10-K"
      [] tok = "form" -> "FORM"
      [] tok = ".htm" -> ".HTM"
      [] tok = ".html" -> ".HTML"
      [] tok = ".txt" -> ".TXT"
      [] tok = "x" -> "X"
      [] OTHER -> tok

UpperText(t) == [i \in 1..Len(t) |-> Upper(t[i])]

\* an element of a parsed page
Element(tag, id, cls, text) ==
    [tag |-> tag, id |-> id, cls |-> cls, text |-> text, rows |-> <<>>,
     href |-> NoHref]
TableElement(cls, rows) ==
    [tag |-> "table", id |-> "", cls |-> cls, text |-> <<>>, rows |-> rows,
     href |-> NoHref]
AnchorElement(href, text) ==
    [tag |-> "a", id |-> "", cls |-> "", text |-> text, rows |-> <<>>,
     href |-> href]

RECURSIVE Flatten(_)
Flatten(ss) == IF ss = <<>> THEN <<>> ELSE Head(ss) \o Flatten(Tail(ss))

\* the strings of one element that count as text of an enclosing element
Strings(el) ==
    CASE el.tag \in {"script", "style", "img"} -> <<>>
      [] el.tag = "table" ->
             Flatten([i \in 1..Len(el.rows) |->
                        IF el.rows[i].text = <<>> THEN <<>> ELSE <<el.rows[i].text>>])
      [] OTHER -> IF el.text = <<>> THEN <<>> ELSE <<el.text>>

AllStrings(nodes) == Flatten([i \in 1..Len(nodes) |-> Strings(nodes[i])])

\* sep.join(strings)
RECURSIVE Join(_, _)
Join(strs, sep) ==
    IF strs = <<>> THEN <<>>
    ELSE IF Len(strs) = 1 THEN strs[1]
    ELSE strs[1] \o sep \o Join(Tail(strs), sep)

\* tag.get_text(separator=sep) over a sequence of elements
get_text(nodes, sep) == Join(AllStrings(nodes), sep)

\* for tag in soup.find_all(tags): tag.decompose()
Decompose(nodes, tags) == SelectSeq(nodes, LAMBDA el : el.tag \notin tags)

Unwanted == {"img", "script", "style"}

\* every string of the response text, markup and script bodies included
RawStrings(nodes) ==
    Flatten([i \in 1..Len(nodes) |->
               IF nodes[i].tag = "table" THEN Strings(nodes[i])
               ELSE IF nodes[i].text = <<>> THEN <<>> ELSE <<nodes[i].text>>])

\* BeautifulSoup's endData: a string of whitespace only, outside <pre>, is
\* stored as one newline if it holds a newline, else as one blank
stored_string(s) ==
    IF s # <<>> /\ \A i \in 1..Len(s) : s[i] \in WhiteSpace
    THEN IF \E i \in 1..Len(s) : s[i] = Newline THEN <<Newline>> ELSE <<Blank>>
    ELSE s

\* one element as the parser stores it
stored(el) ==
    IF el.tag = "pre" THEN el
    ELSE [tag |-> el.tag, id |-> el.id, cls |-> el.cls,
          text |-> stored_string(el.text),
          rows |-> [r \in 1..Len(el.rows) |->
                      [ncells |-> el.rows[r].ncells,
                       text |-> stored_string(el.rows[r].text),
                       href |-> el.rows[r].href]],
          href |-> el.href]

\* BeautifulSoup(response.text, 'html.parser') over the markup's elements:
\* text that is not interrupted by a tag is one string
RECURSIVE parsed(_)
parsed(nodes) ==
    IF nodes = <<>> THEN <<>>
    ELSE IF Len(nodes) >= 2 /\ nodes[1].tag = "text" /\ nodes[2].tag = "text"
    THEN parsed(<<Element("text", "", "", nodes[1].text \o nodes[2].text)>>
                    \o SubSeq(nodes, 3, Len(nodes)))
    ELSE <<stored(Head(nodes))>> \o parsed(Tail(nodes))

RECURSIVE SumLen(_)
SumLen(strs) == IF strs = <<>> THEN 0 ELSE TextLen(Head(strs)) + SumLen(Tail(strs))

\* a fetched page, from the elements of its markup: response.text has rawlen
\* characters, xml says whether '<?xml' is in its first 1000 characters
\* together with an xbrl namespace, nodes are the elements as parsed, docs
\* are the <DOCUMENT> blocks of a complete-submission text file
Page(markup, xml, nodes) ==
    [rawlen |-> markup + SumLen(RawStrings(nodes)), xml |-> xml,
     nodes |-> parsed(nodes), docs |-> <<>>]


\* 'FORM 10-K' in response.text
HasForm10K(strs) ==
    \E i \in 1..Len(strs) : ContainsSeq(strs[i], <<"FORM", Blank, "10-K">>)
\* 'ANNUAL REPORT' in response.text.upper()
HasAnnualReport(strs) ==
    \E i \in 1..Len(strs) :
        ContainsSeq(UpperText(strs[i]), <<"ANNUAL", Blank, "REPORT">>)
HasSEC(strs) ==
    \E i \in 1..Len(strs) :
        Contains(UpperText(strs[i]), "SECURITIES AND EXCHANGE COMMISSION")
HasFiscalYear(strs) ==
    \E i \in 1..Len(strs) : Contains(UpperText(strs[i]), "FISCAL YEAR")

ItemHeaders ==
    {"ITEM 1. BUSINESS", "ITEM 1A. RISK FACTORS", "ITEM 7. MANAGEMENT'S DISCUSSION",
     "ITEM 8. FINANCIAL STATEMENTS"}
\* any(header in response.text.upper() for header in [...])
HasItemHeader(strs) ==
    \E i \in 1..Len(strs) : \E h \in ItemHeaders : Contains(UpperText(strs[i]), h)

\* lines 489-492 and 776-779
HasTenKPhrase(strs) ==
    \/ HasForm10K(strs)
    \/ HasAnnualReport(strs)
    \/ (HasSEC(strs) /\ (HasFiscalYear(strs) \/ HasAnnualReport(strs)))

\* soup.find('div', id='filing-content') or soup.find('div', id='document')
\* or soup.find('div', class_='filing')
HasStructureDiv(nodes) ==
    \E i \in 1..Len(nodes) :
        /\ nodes[i].tag = "div"
        /\ (nodes[i].id \in {"filing-content", "document"} \/ nodes[i].cls = "filing")

\* lines 484-507
is_direct_document(page) ==
    /\ page.rawlen > 10000
    /\ \/ HasTenKPhrase(RawStrings(page.nodes))
       \/ HasStructureDiv(page.nodes)
       \/ HasItemHeader(RawStrings(page.nodes))

container_ids == <<"filing-content", "main-content", "document", "content", "body">>

First(S) == CHOOSE i \in S : \A j \in S : i <= j

\* soup.find(id=container_id) over container_ids: index of the element, 0 if none
container_by_id(nodes) ==
    LET hits == {k \in 1..Len(container_ids) :
                    \E i \in 1..Len(nodes) : nodes[i].id = container_ids[k]}
    IN  IF hits = {} THEN 0
        ELSE First({i \in 1..Len(nodes) : nodes[i].id = container_ids[First(hits)]})

\* 'filing' in cls.lower() or 'document' in cls.lower() or 'content' in cls.lower()
ContainerClass(cls) == cls \in {"filing", "document", "content", "filing-body"}

\* the first <div> with such a class, 0 if none
container_by_class(nodes) ==
    LET hits == {i \in 1..Len(nodes) :
                    nodes[i].tag = "div" /\ ContainerClass(nodes[i].cls)}
    IN  IF hits = {} THEN 0 ELSE First(hits)

\* lines 511-532: the container, 0 for the whole page
named_container(nodes) ==
    IF container_by_id(nodes) # 0 THEN container_by_id(nodes)
    ELSE container_by_class(nodes)

Selected(nodes, c) == IF c = 0 THEN nodes ELSE <<nodes[c]>>

\* lines 508-574: the text returned for a page taken as the document itself
direct_text(page) ==
    LET c == named_container(page.nodes)
        first == cleanup(get_text(Decompose(Selected(page.nodes, c), Unwanted),
                                  <<Newline>>))
    IN  IF StripLen(first) < 5000 /\ c # 0
        THEN cleanup(get_text(Decompose(page.nodes, Unwanted), <<Newline>>))
        ELSE first

\* lines 579-588: the file table, 0 if the page has none
file_table(nodes) ==
    LET named == {i \in 1..Len(nodes) :
                     nodes[i].tag = "table" /\ nodes[i].cls = "tableFile"}
        linked == {i \in 1..Len(nodes) :
                      /\ nodes[i].tag = "table"
                      /\ \E r \in 1..Len(nodes[i].rows) :
                             nodes[i].rows[r].href # NoLinkTag}
    IN  IF named # {} THEN First(named)
        ELSE IF linked # {} THEN First(linked)
        ELSE 0

\* soup.get_text(separator='\n') of the page as parsed, nothing removed
index_text(page) == get_text(page.nodes, <<Newline>>)

\* lines 592-596, 744-748, 763-767
index_fallback(page, message) ==
    IF StripLen(index_text(page)) > 100 THEN index_text(page) ELSE message

\* soup.find_all('a') with link.get('href'): the links of the page in order
page_links(nodes) ==
    Flatten([i \in 1..Len(nodes) |->
        IF nodes[i].tag = "table"
        THEN Flatten([r \in 1..Len(nodes[i].rows) |->
                 IF nodes[i].rows[r].href \in {NoHref, NoLinkTag} THEN <<>>
                 ELSE <<[href |-> nodes[i].rows[r].href,
                         text |-> nodes[i].rows[r].text]>>])
        ELSE IF nodes[i].tag = "a" /\ nodes[i].href # NoHref
        THEN <<[href |-> nodes[i].href, text |-> nodes[i].text]>>
        ELSE <<>>])

HomeLinks ==
    {<<"/">>, <<"/", "index", ".htm">>, <<Host, "/">>, <<Host, "/", "index", ".htm">>}

LowerText(t) == [i \in 1..Len(t) |-> Lower(t[i])]

\* the cik prefix of a file name, from re.search(r'/data/(\d+)/', filing_url)
CikToken == "320193"

\* lines 699-703: the file name looks like a main document
MainDocumentName(filing, name) ==
    /\ name # <<>>
    /\ \/ name[1] \in {"10-k", "10k"}
       \/ (Len(name) >= 2 /\ name[1] = "form" /\ name[2] \in {"10-k", "10k"})
       \/ (CikMatch(filing) /\ name[1] = CikToken)
    /\ ~Contains(LowerText(name), "exhibit")
    /\ EndsWith(name, ".htm")

\* the three passes over the links, lines 682-740
LinkPass(pass, filing, link) ==
    /\ link.href # EmptyHref
    /\ CASE pass = 1 ->
              /\ link.href \notin HomeLinks
              /\ (InArchives(filing) \/ InArchives(link.href))
              /\ MainDocumentName(filing, Basename(link.href))
         [] pass = 2 ->
              /\ link.href \notin HomeLinks
              /\ EndsWith(link.href, ".htm")
              /\ ~Contains(LowerText(link.href), "exhibit")
              /\ ~Contains(CellText(link.text), "exhibit")
         [] OTHER ->
              /\ \E e \in {".htm", ".html", ".txt"} : EndsWith(link.href, e)
              /\ link.href \notin HomeLinks

RECURSIVE scan_links(_, _, _)
scan_links(pass, filing, links) ==
    LET hits == {i \in 1..Len(links) : LinkPass(pass, filing, links[i])}
    IN  IF hits # {} THEN links[First(hits)].href
        ELSE IF pass = 3 THEN NoDocumentLink
        ELSE scan_links(pass + 1, filing, links)

\* lines 576-748 alone: the page is always searched for a document link
process_page_resolving(filing, page) ==
    IF file_table(page.nodes) = 0
    THEN [kind |-> "return", path |-> "no table",
          text |-> index_fallback(page,
                       <<"Could not find filing content on the index page.">>),
          link |-> NoDocumentLink]
    ELSE LET rows == page.nodes[file_table(page.nodes)].rows
             from_table == resolve(rows).link
             link == IF Truthy(from_table) THEN from_table
                     ELSE scan_links(1, filing, page_links(page.nodes))
         IN  IF ~Truthy(link)
             THEN [kind |-> "return", path |-> "no link",
                   text |-> index_fallback(page,
                       <<"Could not find any document links in the filing.">>),
                   link |-> link]
             ELSE [kind |-> "fetch", path |-> "document", text |-> <<>>,
                   link |-> link]

\* lines 442-748 once the nested document, if any, has been tried: what the
\* page step does with the parsed page of filing_url
process_page(filing, page) ==
    IF is_direct_document(page)
    THEN [kind |-> "return", path |-> "direct", text |-> direct_text(page),
          link |-> NoDocumentLink]
    ELSE IF file_table(page.nodes) = 0
    THEN [kind |-> "return", path |-> "no table",
          text |-> index_fallback(page,
                       <<"Could not find filing content on the index page.">>),
          link |-> NoDocumentLink]
    ELSE LET rows == page.nodes[file_table(page.nodes)].rows
             from_table == resolve(rows).link
             link == IF Truthy(from_table) THEN from_table
                     ELSE scan_links(1, filing, page_links(page.nodes))
         IN  IF ~Truthy(link)
             THEN [kind |-> "return", path |-> "no link",
                   text |-> index_fallback(page,
                       <<"Could not find any document links in the filing.">>),
                   link |-> link]
             ELSE [kind |-> "fetch", path |-> "document", text |-> <<>>,
                   link |-> link]


\* lines 775-786
is_10k_document(page) ==
    HasTenKPhrase(RawStrings(page.nodes)) \/ HasItemHeader(RawStrings(page.nodes))

\* line 791
is_xbrl_document(page) == page.xml

IsHtmlUrl(url) == EndsWith(url, ".htm") \/ EndsWith(url, ".html")

AccNoDashes == "000032019323000106"
AccDashed == "0000320193-23-000106"

\* document_url.rsplit('.', 1)[0] + '.txt'
txt_url(url) == SubSeq(url, 1, Len(url) - 1) \o <<".txt">>

\* re.sub(r'/ix\?doc=', '/', document_url)
non_inline_url(url) == [i \in 1..Len(url) |-> IF url[i] = IxPrefix THEN "/" ELSE url[i]]

\* lines 811-818
complete_submission_alt_url(url) ==
    LET a == First({i \in 1..Len(url) : url[i] \in ArchiveDirs})
    IN  SubSeq(url, 1, a - 1) \o <<DashedDir, AccNoDashes, ".txt">>

\* lines 796-818: alternative_urls
alternative_urls(url) ==
    IF ~IsHtmlUrl(url) THEN <<>>
    ELSE <<txt_url(url)>>
         \o (IF HasIx(url) THEN <<non_inline_url(url)>> ELSE <<>>)
         \o (IF InArchives(url) /\ AccMatch(url)
             THEN <<complete_submission_alt_url(url)>> ELSE <<>>)

\* line 847
lookup_index_url == <<Host, DocDir, AccDashed, "-index", ".htm">>

StartsWithSlash(href) ==
    href # <<>> /\ href[1] \in ArchiveDirs \cup {"/", IxPrefix}

\* lines 857-863: the links of the looked-up index page that are requested
LookupLink(href) ==
    /\ href # EmptyHref
    /\ EndsWith(href, ".htm")
    /\ ~HasIx(href)
    /\ LET h == LowerText(href)
       IN  \/ Contains(h, "10-k")
           \/ Contains(h, "10k")
           \/ \E i \in 1..(Len(h) - 1) : h[i] = "form" /\ IsTenK(h[i + 1])
           \/ Contains(h, "annual")

lookup_doc_url(href) ==
    IF StartsWithHttp(href) THEN href
    ELSE IF StartsWithSlash(href) THEN <<Host>> \o href
    ELSE <<Host, DocDir>> \o href

lookup_urls(page) ==
    LET links == page_links(page.nodes)
    IN  Flatten([i \in 1..Len(links) |->
                   IF LookupLink(links[i].href)
                   THEN <<lookup_doc_url(links[i].href)>> ELSE <<>>])

\* line 938 and 943: whether the complete submission is asked for
wants_bundle(url) ==
    InArchives(url) /\ ~EndsWith(url, ".txt") /\ AccMatch(url) /\ CikMatch(url)

\* line 949
bundle_url == <<Host, DocDir, AccNoDashes, ".txt">>

\* <TYPE>(10-K|10K)
TenKType(type) == type \in {"10-K", "10K", "10-K/A"}

\* text_match.group(1).strip() on markup: whitespace at either end of the
\* markup is dropped, whitespace inside the first or last tag is kept
RECURSIVE stripped_markup(_)
stripped_markup(nodes) ==
    IF nodes = <<>> THEN <<>>
    ELSE LET first == Head(nodes)
             last == nodes[Len(nodes)]
             lead == LStrip(first.text, WhiteSpace)
             trail == RStrip(last.text, WhiteSpace)
         IN  IF first.tag = "text" /\ lead # first.text
             THEN stripped_markup((IF lead = <<>> THEN <<>>
                                   ELSE <<Element("text", "", "", lead)>>)
                                      \o Tail(nodes))
             ELSE IF last.tag = "text" /\ trail # last.text
             THEN stripped_markup(SubSeq(nodes, 1, Len(nodes) - 1)
                                      \o (IF trail = <<>> THEN <<>>
                                          ELSE <<Element("text", "", "", trail)>>))
             ELSE nodes

\* an element as the file holds it, tags included
OpenTag(el) ==
    "<" \o el.tag
        \o (IF el.id = "" THEN "" ELSE " id=\"" \o el.id \o "\"")
        \o (IF el.cls = "" THEN "" ELSE " class=\"" \o el.cls \o "\"")
        \o ">"
RowMarkup(row) ==
    <<"<tr>">> \o [k \in 1..(row.ncells - 1) |-> "<td></td>"]
        \o (IF row.href = NoLinkTag THEN <<"<td>">> \o row.text
            ELSE IF row.href = NoHref THEN <<"<td><a>">> \o row.text \o <<"</a>">>
            ELSE <<"<td><a href=\"">> \o row.href \o <<"\">">> \o row.text
                     \o <<"</a>">>)
        \o <<"</td></tr>">>
Markup(el) ==
    CASE el.tag = "text" -> el.text
      [] el.tag = "img" -> <<"<img>">>
      [] el.tag = "table" ->
             <<OpenTag(el)>> \o Flatten([r \in 1..Len(el.rows) |-> RowMarkup(el.rows[r])])
                 \o <<"</table>">>
      [] el.tag = "a" /\ el.href # NoHref ->
             <<"<a href=\"">> \o el.href \o <<"\">">> \o el.text \o <<"</a>">>
      [] OTHER -> <<OpenTag(el)>> \o el.text \o <<"</" \o el.tag \o ">">>

\* lines 959-986 over the <DOCUMENT> blocks from block `start` on: a match
\* of '<DOCUMENT>.*?<TYPE>(10-K|10K).*?</DOCUMENT>' runs from the first
\* unconsumed block to the first block of such a type, and the <TEXT> taken
\* is the first one inside the match
RECURSIVE bundle_scan(_, _)
bundle_scan(docs, start) ==
    LET ends == {b \in start..Len(docs) : TenKType(docs[b].type)}
    IN  IF ends = {} THEN [found |-> FALSE, text |-> <<>>]
        ELSE LET d == docs[start]
                 kept == stripped_markup(d.nodes)
                 extracted == Flatten([i \in 1..Len(kept) |-> Markup(kept[i])])
             IN  IF d.markup + SumLen(RawStrings(kept)) > 10000
                 THEN [found |-> TRUE,
                       text |-> cleanup(
                           IF d.html
                           THEN get_text(Decompose(parsed(kept), {"script", "style"}),
                                         <<Newline>>)
                           ELSE extracted)]
                 ELSE bundle_scan(docs, First(ends) + 1)

\* lines 953-986: the text returned from the complete submission, if any
bundle_text(page) ==
    IF page.rawlen > 10000 THEN bundle_scan(page.docs, 1)
    ELSE [found |-> FALSE, text |-> <<>>]

Longest(nodes, S) ==
    CHOOSE i \in S :
        \A j \in S : \/ TextLen(nodes[j].text) < TextLen(nodes[i].text)
                     \/ (TextLen(nodes[j].text) = TextLen(nodes[i].text) /\ i <= j)

\* lines 911-925: the <div> with the longest text over 1000 characters, 0 if none
largest_div(nodes) ==
    LET blocks == {i \in 1..Len(nodes) :
                      nodes[i].tag = "div" /\ TextLen(nodes[i].text) > 1000}
    IN  IF blocks = {} THEN 0 ELSE Longest(nodes, blocks)

\* lines 1042-1053: the same over the stripped texts
largest_div_stripped(nodes) ==
    LET blocks == {i \in 1..Len(nodes) :
                      nodes[i].tag = "div" /\ StripLen(nodes[i].text) > 1000}
    IN  IF blocks = {} THEN 0
        ELSE CHOOSE i \in blocks :
                 \A j \in blocks :
                     \/ StripLen(nodes[j].text) < StripLen(nodes[i].text)
                     \/ (StripLen(nodes[j].text) = StripLen(nodes[i].text) /\ i <= j)

\* lines 890-930: main_content, 0 for the whole document
main_content(nodes) ==
    IF named_container(nodes) # 0 THEN named_container(nodes)
    ELSE largest_div(nodes)

section_indicators ==
    {"Item 1. Business", "Item 1A. Risk Factors", "Item 7. Management",
     "Item 8. Financial Statements"}

\* `indicator in div_text`, on one token of the text: the token is the
\* indicator, or a longer heading that begins with it
HoldsIndicator(tok, ind) ==
    \/ tok = ind
    \/ (ind = "Item 7. Management" /\ tok = "Item 7. Management's Discussion")

IsSectionStart(el) ==
    /\ el.tag \in {"div", "section", "span"}
    /\ \E ind \in section_indicators :
           \E i \in 1..Len(el.text) : HoldsIndicator(el.text[i], ind)

\* lines 1005-1012: content_sections, as indices into the elements
content_sections(nodes) ==
    Flatten([i \in 1..Len(nodes) |->
        IF IsSectionStart(nodes[i])
        THEN <<i>> \o SelectSeq([k \in 1..(Len(nodes) - i) |-> i + k],
                                LAMBDA j : /\ nodes[j].tag # "text"
                                           /\ StripLen(get_text(<<nodes[j]>>, <<>>)) > 100)
        ELSE <<>>])

\* lines 1017-1021
sections_text(nodes) ==
    LET secs == content_sections(nodes)
    IN  Flatten([k \in 1..Len(secs) |->
            LET t == Strip(get_text(<<nodes[secs[k]]>>, <<>>))
            IN  IF TextLen(t) > 100 THEN t \o <<Newline, Newline>> ELSE <<>>])

\* lines 1029-1034
spans_text(nodes) ==
    Flatten([i \in 1..Len(nodes) |->
        IF nodes[i].tag = "span" /\ StripLen(nodes[i].text) > 50
        THEN Strip(nodes[i].text) \o <<Newline, Newline>> ELSE <<>>])

\* lines 1084-1099: the table and <pre> texts appended to a short 10-K text
RECURSIVE appended(_, _)
appended(nodes, tag) ==
    IF nodes = <<>> THEN <<>>
    ELSE LET t == get_text(<<Head(nodes)>>, <<Newline>>)
         IN  (IF Head(nodes).tag = tag /\ StripLen(t) > 500
              THEN <<Newline, Newline>> \o t ELSE <<>>)
             \o appended(Tail(nodes), tag)

\* lines 1065-1099: the sufficiency check on the cleaned text
sufficiency(doc_nodes, text, c, min_len, tenk) ==
    IF StripLen(text) < min_len /\ c # 0
    THEN LET whole == cleanup(get_text(doc_nodes, <<Newline>>))
         IN  IF StripLen(whole) < min_len /\ tenk
             THEN whole \o appended(doc_nodes, "table") \o appended(doc_nodes, "pre")
             ELSE whole
    ELSE text

\* lines 1029-1063: the text taken from the document (nodes: the elements
\* left after img, script and style are removed; c: main_content), cleaned
text_content(nodes, c, xbrl) ==
    LET spans == spans_text(nodes)
        d == largest_div_stripped(nodes)
    IN  cleanup(IF ~xbrl THEN get_text(Selected(nodes, c), <<Newline>>)
                ELSE IF TextLen(spans) > 5000 THEN spans
                ELSE IF d # 0 THEN get_text(<<nodes[d]>>, <<Newline>>)
                ELSE get_text(Selected(nodes, c), <<Newline>>))

\* line 1066: min_content_length = 5000 if is_10k else 1000
min_content_length(tenk) == IF tenk THEN 5000 ELSE 1000

\* lines 882-1102 without the complete-submission request: the text
\* returned for the document page
document_text(page, xbrl, tenk) ==
    LET nodes == Decompose(page.nodes, Unwanted)
        c == main_content(nodes)
        sections == sections_text(nodes)
    IN  IF xbrl /\ content_sections(nodes) # <<>> /\ TextLen(sections) > 5000
        THEN [path |-> "sections", text |-> sections]
        ELSE [path |-> "document",
              text |-> sufficiency(nodes, text_content(nodes, c, xbrl), c,
                                   min_content_length(tenk), tenk)]

(* sample pages *)

Prose(tok) == Element("p", "", "", <<tok>>)
\* a string of the page outside any element: the newlines between tags
Gap == Element("text", "", "", <<Newline, Newline>>)
Script == Element("script", "", "", <<"script:payload">>)
Style == Element("style", "", "", <<"style:payload">>)
Img == Element("img", "", "", <<>>)
FormTenKText == <<"FORM", Blank, "10-K">>

\* rows of the file tables of the sample index pages
PageRows ==
    { [ncells |-> 3, text |-> <<"main", ".htm">>, href |-> <<"main", ".htm">>],
      [ncells |-> 3, text |-> <<"aapl-", "2023", "0930", ".htm">>,
       href |-> <<IxPrefix, DocDir, "aapl-", "2023", "0930", ".htm">>],
      [ncells |-> 3, text |-> <<"Exhibit", "99", ".htm">>,
       href |-> <<"exhibit", "99", ".htm">>],
      [ncells |-> 3, text |-> <<"10-K">>, href |-> NoHref],
      [ncells |-> 3, text |-> <<"10-K">>, href |-> <<Host, DashedDir, "10-k", ".htm">>],
      [ncells |-> 2, text |-> <<"main", ".htm">>, href |-> <<DocDir, "main", ".htm">>],
      [ncells |-> 2, text |-> <<"main", ".txt">>, href |-> <<"main", ".txt">>] }

PageTables == SeqsUpTo(PageRows, MaxItems)

MainAnchor == AnchorElement(<<DocDir, "main", ".htm">>, <<"main", ".htm">>)

\* the section headings of a 10-K as filings print them
MixedCaseHeaders ==
    {"Item 1. Business", "Item 1A. Risk Factors", "Item 7. Management's Discussion",
     "Item 8. Financial Statements"}

\* pages the request for filing_url may return
IndexPages ==
    { Page(500, FALSE, <<Script, Prose("prose150"), Gap, TableElement("tableFile", t)>>) :
          t \in PageTables }
    \cup { Page(500, FALSE, <<TableElement("", t)>>) : t \in PageTables }
    \cup { Page(500, FALSE, <<>>),
           Page(500, FALSE, <<Prose("prose150"), Gap,
                              TableElement("", <<[ncells |-> 3, text |-> <<"10-K">>,
                                                  href |-> NoLinkTag]>>)>>),
           Page(500, FALSE, <<Style, Prose("prose150"), Gap, Gap, MainAnchor>>),
           Page(12000, FALSE, <<Prose("prose150"),
                                TableElement("tableFile", <<>>), MainAnchor>>),
           Page(0, FALSE, <<Element("div", "filing-content", "",
                                    FormTenKText \o <<Newline, "prose6000">>),
                            Gap, Gap, Prose("prose6000"), Script, Img>>),
           Page(0, FALSE, <<Element("div", "content", "", <<"x">>),
                            Element("p", "", "",
                                    FormTenKText \o <<Newline, Newline, Newline,
                                                      "prose12000">>),
                            Style>>),
           Page(0, FALSE, <<Element("div", "content", "", <<"x">>),
                            Prose("prose12000")>>) }
    \cup { Page(0, FALSE, <<Element("p", "", "", <<h, Blank, "prose12000">>),
                            TableElement("tableFile",
                                <<[ncells |-> 3, text |-> <<"main", ".htm">>,
                                   href |-> <<"main", ".htm">>]>>)>>) :
               h \in MixedCaseHeaders }

\* pages the request for the document may return
DocumentPages ==
    { Page(0, FALSE, <<>>),
      Page(0, FALSE, <<Prose("x")>>),
      Page(0, FALSE, <<Script, Prose("prose6000"), Gap, Gap, Img>>),
      Page(0, FALSE, <<Element("div", "", "", <<"prose1200">>),
                       Element("div", "", "", <<"prose6000">>), Prose("prose150")>>),
      Page(0, FALSE, <<Element("div", "content", "", FormTenKText), Gap,
                       TableElement("", <<[ncells |-> 1, text |-> <<"prose600">>,
                                           href |-> NoLinkTag]>>),
                       Element("pre", "", "", <<"prose600">>), Script>>),
      Page(0, FALSE, <<Element("p", "", "", FormTenKText),
                       TableElement("", <<[ncells |-> 1, text |-> <<"prose600">>,
                                           href |-> NoLinkTag]>>)>>),
      Page(0, TRUE, <<Element("span", "", "", <<"Item 1. Business">>),
                      Element("div", "", "",
                              <<"prose6000", Blank, Blank, Blank, "x">>)>>),
      Page(0, TRUE, <<Element("span", "", "", <<"prose6000">>),
                      Element("span", "", "", <<"prose60">>), Style>>),
      Page(0, TRUE, <<Element("div", "", "", <<"prose1200">>), Prose("x")>>),
      Page(0, TRUE, <<Prose("prose150")>>),
      Page(0, FALSE, <<Element("div", "content", "", <<"Item 8. Financial Statements">>),
                       Prose("prose1200"),
                       TableElement("", <<[ncells |-> 1, text |-> <<"prose600">>,
                                           href |-> NoLinkTag]>>)>>) }

\* a <DOCUMENT> block of a complete-submission text file
BundleDoc(type, html, markup, nodes) ==
    [type |-> type, html |-> html, markup |-> markup, nodes |-> nodes]

TenKHtmlDoc == BundleDoc("10-K", TRUE, 6000, <<Prose("prose6000"), Script>>)
TenKTextDoc ==
    BundleDoc("10-K", FALSE, 0,
              <<Element("text", "", "",
                        <<"prose12000", Newline, Newline, Newline, "x">>)>>)
GraphicDoc ==
    BundleDoc("GRAPHIC", FALSE, 0, <<Element("text", "", "", <<"image:data">>)>>)
ExhibitDoc == BundleDoc("EX-99", TRUE, 0, <<Prose("prose150")>>)
\* markup that starts with a tag and has neither </html> nor </body>
FragmentDoc == BundleDoc("10-K", FALSE, 7, <<Prose("prose12000")>>)

RECURSIVE DocsLen(_)
DocsLen(docs) ==
    IF docs = <<>> THEN 0
    ELSE Head(docs).markup + SumLen(RawStrings(Head(docs).nodes)) + DocsLen(Tail(docs))

\* a complete-submission text file, and what html.parser makes of the whole
\* file: the string after each <TYPE> is text of the tree like the rest
Bundle(docs) ==
    [rawlen |-> DocsLen(docs), xml |-> FALSE,
     nodes |-> parsed(Flatten([i \in 1..Len(docs) |->
                   <<Element("type", "", "", <<docs[i].type>>)>> \o docs[i].nodes])),
     docs |-> docs]

Bundles ==
    { Bundle(<<TenKHtmlDoc, GraphicDoc>>),
      Bundle(<<GraphicDoc, TenKHtmlDoc>>),
      Bundle(<<TenKTextDoc>>),
      Bundle(<<FragmentDoc>>),
      Bundle(<<ExhibitDoc>>) }

\* pages the requests for the alternative URLs and the linked documents may return
AlternativePages ==
    { Page(0, FALSE, <<Prose("x")>>),
      Page(0, FALSE, <<Prose("prose6000"), Gap, Gap>>),
      Page(0, TRUE, <<Element("span", "", "", <<"prose6000">>)>>),
      Bundle(<<TenKHtmlDoc, GraphicDoc>>) }

\* pages the request for the accession's index page may return
LookupPages ==
    { Page(500, FALSE, <<>>),
      Page(500, FALSE, <<AnchorElement(<<DocDir, "aapl-", "10-k", ".htm">>, <<"10-K">>),
                         AnchorElement(<<"annual", ".htm">>, <<"annual">>),
                         AnchorElement(<<DocDir, "R1", ".htm">>, <<"R1">>)>>) }

\* what make_request raises once the retries are used up or the error is final
FetchFailures ==
    {HTTPError(404), HTTPError(503), [cls |-> "Timeout", status |-> 0]}

Failed(e) == [ok |-> FALSE, exc |-> e]
Fetched(page) == [ok |-> TRUE, page |-> page]
Outcomes(pages) == {Failed(e) : e \in FetchFailures} \cup {Fetched(p) : p \in pages}

IndexOutcomes == Outcomes(IndexPages)
DocumentOutcomes == Outcomes(DocumentPages)
AlternativeOutcomes == Outcomes(AlternativePages)
LookupOutcomes == Outcomes(LookupPages)
BundleOutcomes == Outcomes(Bundles \cup {Page(0, FALSE, <<Prose("x")>>)})

\* URLs a caller passes
FilingUrls ==
    { <<Host, DashedDir, AccDashed, "-index", ".htm">>,
      <<Host, DocDir, AccDashed, "-index", ".htm">>,
      <<Host, IxPrefix, DashedDir, "aapl-", "2023", "0930", ".htm">>,
      <<Host, IxPrefix, "/", "doc", ".htm">> }


(* extract_filing_text, step by step *)

\* what a call ends with: a returned string or a raised exception
Return(text) == [kind |-> "str", text |-> text]
Raise(e) == [kind |-> "raise", exc |-> e]

\* lines 1104-1106 with the handler re-raising
internal_error_raised(e) == Raise(e)
\* lines 1104-1106: return f"Error extracting filing text: {str(e)}"
internal_error(e) == Return(<<"Error extracting filing text: ">> \o ExcStr(e))

\* lines 435-436 with the handler re-raising
index_failure_raised(e) == Raise(e)
\* lines 435-436: return f"Failed to retrieve filing index page: {str(e)}"
index_failure(e) == Return(<<"Failed to retrieve filing index page: ">> \o ExcStr(e))

\* line 767: f"Failed to retrieve document file: {str(e)}"
document_failure(e) == <<"Failed to retrieve document file: ">> \o ExcStr(e)

\* exceptions the parsing and the tree walks may raise inside the outer try
InternalErrors ==
    {[cls |-> "RecursionError", status |-> 0], [cls |-> "AttributeError", status |-> 0]}

Ends(res, path) ==
    /\ et_pc' = "returned"
    /\ et_result' = res
    /\ et_path' = path

\* the call
Extract(url) ==
    /\ et_pc = "idle"
    /\ et_pc' = "index"
    /\ filing_url' = url
    /\ UNCHANGED <<requests_made, soup, document_url, document_soup, is_xbrl,
                   is_10k, pending_urls, index_error, et_result, et_path>>
    /\ UNCHANGED otherThanExtract

\* lines 433-439: the request for filing_url
FetchIndex(out) ==
    /\ et_pc = "index"
    /\ requests_made' = Append(requests_made, filing_url)
    /\ IF ~out.ok
       THEN /\ index_error' = out.exc
            /\ Ends(index_failure(out.exc), "index failure")
            /\ UNCHANGED soup
       ELSE /\ soup' = out.page
            /\ et_pc' = IF HasIx(filing_url) /\ NestedMatch(filing_url)
                        THEN "nested" ELSE "page"
            /\ UNCHANGED <<index_error, et_result, et_path>>
    /\ UNCHANGED <<filing_url, document_url, document_soup, is_xbrl, is_10k,
                   pending_urls>>
    /\ UNCHANGED otherThanExtract

\* lines 448-477: the request for the document named inside a viewer URL
FetchNested(out) ==
    /\ et_pc = "nested"
    /\ requests_made' = Append(requests_made, NestedUrl(filing_url))
    /\ LET text == IF out.ok
                   THEN cleanup(get_text(Decompose(out.page.nodes, Unwanted),
                                         <<Newline>>))
                   ELSE <<>>
       IN  IF out.ok /\ StripLen(text) > 1000
           THEN Ends(Return(text), "nested")
           ELSE /\ et_pc' = "page"
                /\ UNCHANGED <<et_result, et_path>>
    /\ UNCHANGED <<filing_url, soup, document_url, document_soup, is_xbrl, is_10k,
                   pending_urls, index_error>>
    /\ UNCHANGED otherThanExtract

\* lines 484-756: the page fetched for filing_url is taken as the document
\* itself, or searched for the link of the document
ProcessPage ==
    /\ et_pc = "page"
    /\ LET step == process_page(filing_url, soup)
       IN  IF step.kind = "return"
           THEN /\ Ends(Return(step.text), step.path)
                /\ UNCHANGED document_url
           ELSE /\ et_pc' = "document"
                /\ document_url' = document_url_of(filing_url, step.link)
                /\ UNCHANGED <<et_result, et_path>>
    /\ UNCHANGED <<filing_url, requests_made, soup, document_soup, is_xbrl, is_10k,
                   pending_urls, index_error>>
    /\ UNCHANGED otherThanExtract

\* what follows the alternative URLs, lines 836-844
after_alternatives(xbrl) ==
    IF xbrl /\ HasIx(document_url) /\ CikMatch(document_url) /\ AccMatch(document_url)
    THEN "lookup" ELSE "extract"

\* lines 759-812: the request for the document
FetchDocument(out) ==
    /\ et_pc = "document"
    /\ requests_made' = Append(requests_made, document_url)
    /\ IF ~out.ok
       THEN /\ Ends(Return(index_fallback(soup, document_failure(out.exc))),
                    "document failure")
            /\ UNCHANGED <<document_soup, is_xbrl, is_10k, pending_urls>>
       ELSE /\ document_soup' = out.page
            /\ is_10k' = is_10k_document(out.page)
            /\ is_xbrl' = is_xbrl_document(out.page)
            /\ IF is_xbrl_document(out.page) /\ IsHtmlUrl(document_url)
               THEN /\ pending_urls' = alternative_urls(document_url)
                    /\ et_pc' = "alternative"
               ELSE /\ et_pc' = "extract"
                    /\ UNCHANGED pending_urls
            /\ UNCHANGED <<et_result, et_path>>
    /\ UNCHANGED <<filing_url, soup, document_url, index_error>>
    /\ UNCHANGED otherThanExtract

\* lines 819-833: one turn of the loop over the alternative URLs
FetchAlternative(out) ==
    /\ et_pc = "alternative"
    /\ requests_made' = Append(requests_made, Head(pending_urls))
    /\ IF out.ok /\ out.page.rawlen > 5000
       THEN /\ document_soup' = out.page
            /\ is_xbrl' = FALSE
            /\ pending_urls' = <<>>
            /\ et_pc' = "extract"
       ELSE /\ pending_urls' = Tail(pending_urls)
            /\ et_pc' = IF Tail(pending_urls) = <<>>
                        THEN after_alternatives(is_xbrl) ELSE "alternative"
            /\ UNCHANGED <<document_soup, is_xbrl>>
    /\ UNCHANGED <<filing_url, soup, document_url, is_10k, index_error, et_result,
                   et_path>>
    /\ UNCHANGED otherThanExtract

\* lines 847-855 and 877-878: the request for the index page of the accession
FetchLookup(out) ==
    /\ et_pc = "lookup"
    /\ requests_made' = Append(requests_made, lookup_index_url)
    /\ pending_urls' = IF out.ok THEN lookup_urls(out.page) ELSE <<>>
    /\ et_pc' = IF out.ok /\ lookup_urls(out.page) # <<>> THEN "linked" ELSE "extract"
    /\ UNCHANGED <<filing_url, soup, document_url, document_soup, is_xbrl, is_10k,
                   index_error, et_result, et_path>>
    /\ UNCHANGED otherThanExtract

\* lines 865-876: one turn of the loop over the links of that index page
FetchLinked(out) ==
    /\ et_pc = "linked"
    /\ requests_made' = Append(requests_made, Head(pending_urls))
    /\ IF out.ok /\ out.page.rawlen > 5000
       THEN /\ document_soup' = out.page
            /\ is_xbrl' = is_xbrl_document(out.page)
       ELSE UNCHANGED <<document_soup, is_xbrl>>
    /\ IF (out.ok /\ out.page.rawlen > 5000 /\ ~is_xbrl_document(out.page))
          \/ Tail(pending_urls) = <<>>
       THEN /\ pending_urls' = <<>>
            /\ et_pc' = "extract"
       ELSE /\ pending_urls' = Tail(pending_urls)
            /\ et_pc' = "linked"
    /\ UNCHANGED <<filing_url, soup, document_url, is_10k, index_error, et_result,
                   et_path>>
    /\ UNCHANGED otherThanExtract

\* line 933 and 938-943: the complete submission is asked for
bundle_wanted == is_xbrl /\ wants_bundle(document_url)

\* lines 882-1102 when no further request is made
ExtractText ==
    /\ et_pc = "extract"
    /\ ~bundle_wanted
    /\ LET got == document_text(document_soup, is_xbrl, is_10k)
       IN  Ends(Return(got.text), got.path)
    /\ UNCHANGED <<filing_url, requests_made, soup, document_url, document_soup,
                   is_xbrl, is_10k, pending_urls, index_error>>
    /\ UNCHANGED otherThanExtract

\* lines 882-1102 with the request for the complete submission, lines 949-986
FetchBundle(out) ==
    /\ et_pc = "extract"
    /\ bundle_wanted
    /\ requests_made' = Append(requests_made, bundle_url)
    /\ LET got == document_text(document_soup, is_xbrl, is_10k)
       IN  IF out.ok /\ bundle_text(out.page).found
           THEN Ends(Return(bundle_text(out.page).text), "bundle")
           ELSE Ends(Return(got.text), got.path)
    /\ UNCHANGED <<filing_url, soup, document_url, document_soup, is_xbrl, is_10k,
                   pending_urls, index_error>>
    /\ UNCHANGED otherThanExtract

\* an exception raised anywhere inside the outer try, lines 1104-1106
Unexpected(e) ==
    /\ et_pc \notin {"idle", "returned"}
    /\ Ends(internal_error(e), "internal error")
    /\ UNCHANGED <<filing_url, requests_made, soup, document_url, document_soup,
                   is_xbrl, is_10k, pending_urls, index_error>>
    /\ UNCHANGED otherThanExtract

InitExtract == ChunkIdle /\ FetchIdle /\ DocIdle

NextExtract ==
    \/ \E url \in FilingUrls : Extract(url)
    \/ \E out \in IndexOutcomes : FetchIndex(out)
    \/ \E out \in DocumentOutcomes : FetchNested(out)
    \/ ProcessPage
    \/ \E out \in DocumentOutcomes : FetchDocument(out)
    \/ \E out \in AlternativeOutcomes : FetchAlternative(out)
    \/ \E out \in LookupOutcomes : FetchLookup(out)
    \/ \E out \in AlternativeOutcomes : FetchLinked(out)
    \/ ExtractText
    \/ \E out \in BundleOutcomes : FetchBundle(out)
    \/ \E e \in InternalErrors : Unexpected(e)

SpecExtract == InitExtract /\ [][NextExtract]_vars


(* claims about extract_filing_text *)

\* an inline-viewer URL that names a document under /Archives/
IsWrapper(url) == HasIx(url) /\ NestedMatch(url)

\* C15: no request of a call goes to an inline-viewer wrapper URL
\* (/ix?doc=/Archives/...): the nested document is requested instead,
\* whether the wrapper was passed by the caller or resolved from the index
\* page.
C15_NoWrapperRequest ==
    \A i \in 1..Len(requests_made) : ~IsWrapper(requests_made[i])

\* C16: a call that has ended has returned a string, whatever pages the
\* fetches delivered, and an exception raised inside the function has been
\* turned into a returned text that starts with "Error extracting filing
\* text: ".
C16_NeverRaises ==
    et_pc = "returned" =>
        /\ et_result.kind = "str"
        /\ et_path = "internal error" =>
               /\ Len(et_result.text) = 2
               /\ et_result.text[1] = "Error extracting filing text: "

\* an exception was raised while a fetched page was being processed, and the
\* call has ended
C16_Witness ==
    /\ et_pc = "returned"
    /\ et_path = "internal error"
    /\ soup # NoPage
    /\ document_soup # NoPage

\* C17 as stated: when the request for the given URL has failed after the
\* retries, the call ends with that failure raised to the caller.
C17_FailurePropagates ==
    (et_pc = "returned" /\ index_error # NoException) => et_result.kind = "raise"

\* C17, amended: when the request for the given URL has failed after the
\* retries, the call ends by returning the text "Failed to retrieve filing
\* index page: " followed by the failure's message; nothing is raised and no
\* further request is made.
C17_FailureReturnedAsText ==
    (et_pc = "returned" /\ index_error # NoException) =>
        /\ et_result = Return(<<"Failed to retrieve filing index page: ">>
                              \o ExcStr(index_error))
        /\ requests_made = <<filing_url>>

\* the request for the given URL ended in an HTTP 503 and the call has ended
C17_Witness ==
    /\ et_pc = "returned"
    /\ index_error = HTTPError(503)
    /\ requests_made = <<filing_url>>

\* tokens standing for what must not reach the caller
Payloads == {"script:payload", "style:payload", "image:data"}

\* C18: no returned text holds the payload of a <script> or <style>
\* element or image data of a fetched page.
C18_NoPayload ==
    (et_pc = "returned" /\ et_result.kind = "str") =>
        \A i \in 1..Len(et_result.text) : et_result.text[i] \notin Payloads

\* C19: every returned text has no run of three or more newlines and no run
\* of three or more whitespace characters.
C19_AllCleaned ==
    (et_pc = "returned" /\ et_result.kind = "str") =>
        /\ ~HasRun(et_result.text, {Newline}, 3)
        /\ ~HasRun(et_result.text, WhiteSpace, 3)


\* ---------------------------------------------------------------------
\* find_filings: which tier the result comes from

\* what each tier yields when taken alone
tier_one_yield(body) == process_entries(parsed_entries(body.feed))
tier_two_yield(body) ==
    IF ~body.xml THEN <<>>
    ELSE LET HasLink(e) == e.link \notin {NoLinkTag, EmptyHref}
             kept == SelectSeq(body.raw, HasLink)
         IN  [i \in 1..Len(kept) |->
                 [title       |-> IF kept[i].title = NoTag THEN "Unknown"
                                  ELSE kept[i].title,
                  filing_date |-> IF kept[i].updated = NoTag THEN "Unknown"
                                  ELSE kept[i].updated,
                  link        |-> kept[i].link]]
tier_three_yield(body, filing_type) == row_filings(body.rows, filing_type)
tier_four_yield(body, filing_type) == link_filings(all_links(body), filing_type)

\* the output of the first tier, in order, that yields a FilingReference
FirstYield(body, filing_type) ==
    IF tier_one_yield(body) # <<>> THEN tier_one_yield(body)
    ELSE IF tier_two_yield(body) # <<>> THEN tier_two_yield(body)
    ELSE IF tier_three_yield(body, filing_type) # <<>>
    THEN tier_three_yield(body, filing_type)
    ELSE tier_four_yield(body, filing_type)

\* C21 (as claimed): after a successful fetch the result of find_filings is
\* exactly the output of the first tier (structured feed, entry substrings,
\* table rows, hyperlinks) that yields at least one FilingReference; a weaker
\* tier is tried whenever every stronger tier yielded none.
C21_FirstYieldingTier ==
    (ff_returned /\ ff_fetch = "ok") =>
        ff_result = FirstYield(ff_response, ff_args.filing_type)


\* the rules some candidate row of the table matches
MatchedRules(rows) ==
    {k \in 1..RuleCount :
        \E i \in 1..Len(rows) :
            Candidate(rows[i]) /\ priority_check(k, CellText(rows[i].text))}

\* the first candidate row, in table order, matching the highest-priority
\* rule matched by any candidate row
BestRow(rows) ==
    LET best == First(MatchedRules(rows))
    IN  First({i \in 1..Len(rows) :
                  Candidate(rows[i]) /\ priority_check(best, CellText(rows[i].text))})

\* C22 (as claimed): when some candidate row matches a rule, the selected
\* link is that of the first row, in table order, among the candidate rows
\* matching the highest-priority rule that any candidate row matches.
C22_HighestRuleFirstRow ==
    (res_pc = "resolved" /\ MatchedRules(idx_rows) # {}) =>
        /\ sel_row = BestRow(idx_rows)
        /\ sel_rule = First(MatchedRules(idx_rows))
        /\ document_link = idx_rows[BestRow(idx_rows)].href


\* ---------------------------------------------------------------------
\* extract_filing_text: the fallbacks

\* C23 (as claimed): the call returns the index page's own text for want of
\* a file table only if no hyperlink of the page survives the link scan.
C23_LinksScannedFirst ==
    (et_pc = "returned" /\ et_path = "no table") =>
        ~Truthy(scan_links(1, filing_url, page_links(soup.nodes)))


\* what C24 describes for a text shorter than the minimum: the retry from
\* the whole document if a container was used, then the table and pre texts
\* appended if the text is still shorter
claimed_sufficiency(nodes, text, c, min_len) ==
    LET retried == IF StripLen(text) < min_len /\ c # 0
                   THEN cleanup(get_text(nodes, <<Newline>>)) ELSE text
    IN  IF StripLen(retried) < min_len
        THEN retried \o appended(nodes, "table") \o appended(nodes, "pre")
        ELSE retried

\* the document's elements once img, script and style are removed
Kept == Decompose(document_soup.nodes, Unwanted)

\* C24 (as claimed): a text returned from the document page is the cleaned
\* text, replaced by the whole document's text when it is shorter than the
\* minimum (5000 for a 10-K, 1000 otherwise) and a container was used, and
\* extended by the texts of the tables and pre blocks when it is still
\* shorter than the minimum.
C24_ShortTextExtended ==
    (et_pc = "returned" /\ et_path = "document") =>
        et_result.text =
            claimed_sufficiency(Kept, text_content(Kept, main_content(Kept), is_xbrl),
                                main_content(Kept), min_content_length(is_10k))


\* C25: when the page fetched for a URL that is not an inline-viewer URL is
\* detected as the filing body itself, the call returns the text extracted
\* from that page, and the request for that page is the only request made.
C25_DirectDocumentOnly ==
    (/\ et_pc = "returned"
     /\ et_path # "internal error"
     /\ soup # NoPage
     /\ ~HasIx(filing_url)
     /\ is_direct_document(soup))
        => /\ et_path = "direct"
           /\ et_result = Return(direct_text(soup))
           /\ requests_made = <<filing_url>>

\* a page whose only marker is the heading "Item 7. Management's Discussion",
\* in mixed case, and which also holds a file table with a usable link, was
\* fetched for an index URL, and the call has returned
C25_Witness ==
    /\ et_pc = "returned"
    /\ et_path = "direct"
    /\ ~HasIx(filing_url)
    /\ \E i \in 1..Len(soup.nodes) :
           Contains(soup.nodes[i].text, "Item 7. Management's Discussion")
    /\ file_table(soup.nodes) # 0
    /\ Truthy(resolve(soup.nodes[file_table(soup.nodes)].rows).link)
    /\ requests_made = <<filing_url>>


\* ---------------------------------------------------------------------
\* the retry wrapper: delays, sleeps and termination

\* d_k: initial_delay multiplied by backoff_factor after every retry
RECURSIVE nominal_delay(_)
nominal_delay(k) ==
    IF k = 1 THEN initial_delay ELSE nominal_delay(k - 1) * backoff_factor

\* C26: the delay slept before the k-th retry lies in [d_k, 1.1 * d_k] with
\* d_1 = initial_delay and d_(k+1) = d_k * backoff_factor, and there are at
\* most max_retries sleeps (sleeps are recorded in 1/100000 of the unit of
\* the delay).
C26_DelayWithinJitter ==
    /\ Len(sleeps) <= max_retries
    /\ \A k \in 1..Len(sleeps) :
           /\ nominal_delay(k) * 100000 <= sleeps[k]
           /\ sleeps[k] <= nominal_delay(k) * 110000
    /\ mr_pc \in {"try", "sleeping"} => delay = nominal_delay(retry + 1)

\* a run slept before each of its max_retries retries, the last sleep with
\* jitter above the nominal delay
C26_Witness ==
    /\ Len(sleeps) = max_retries
    /\ sleeps[max_retries] > nominal_delay(max_retries) * 100000
    /\ sleeps[1] = initial_delay * 100000


\* ---------------------------------------------------------------------
\* find_cik and the retry policy

\* the lookup request failed in a way the retry policy retries
CikTransient(net) ==
    \/ net.kind = "exception"
    \/ net.kind = "response" /\ (net.status = 429 \/ net.status >= 500)

\* C27 (as claimed): when the lookup request of find_cik fails transiently
\* (connection error, timeout, HTTP 429 or 5xx), the request is made again
\* before find_cik returns or raises.
C27_CikLookupRetried ==
    (cik_pc \in {"returned", "raised"} /\ CikTransient(cik_net)) => cik_posts > 1


(* ------------------- concurrent calls of make_request ------------------ *)
\* Each call runs wrapper (lines 48-79) in its own frame; the steps of the
\* calls interleave at the requests and at the sleeps.

\* delay *= backoff_factor acting on a delay shared by all calls
delay_after_sleep_shared(delays, c) == [k \in DOMAIN delays |-> delays[k] * backoff_factor]
\* line 73: delay *= backoff_factor, on the local of call c
delay_after_sleep(delays, c) == [delays EXCEPT ![c] = @ * backoff_factor]

\* a call enters the wrapper: delay = initial_delay, last_exception = None
ConcCall(c) ==
    /\ cc_pc[c] = "idle"
    /\ cc_pc' = [cc_pc EXCEPT ![c] = "try"]
    /\ cc_delay' = [cc_delay EXCEPT ![c] = initial_delay]
    /\ cc_last' = [cc_last EXCEPT ![c] = NoException]
    /\ cc_retry' = [cc_retry EXCEPT ![c] = 0]
    /\ UNCHANGED <<cc_attempts, cc_sleeps>>
    /\ UNCHANGED otherThanConc

\* one iteration of the loop of call c up to its return, raise or sleep
ConcAttempt(c, net) ==
    /\ cc_pc[c] = "try"
    /\ cc_attempts' = [cc_attempts EXCEPT ![c] = @ + 1]
    /\ LET r == make_request_once(net)
       IN  IF r.ok
           THEN /\ cc_pc' = [cc_pc EXCEPT ![c] = "returned"]
                /\ UNCHANGED <<cc_last, cc_sleeps>>
           ELSE /\ cc_last' = [cc_last EXCEPT ![c] = r.exc]
                /\ IF ~should_retry_request(r.exc) \/ budget_exhausted(cc_retry[c])
                   THEN /\ cc_pc' = [cc_pc EXCEPT ![c] = "raised"]
                        /\ UNCHANGED cc_sleeps
                   ELSE /\ cc_pc' = [cc_pc EXCEPT ![c] = "sleeping"]
                        /\ \E j \in JitterDraws :
                               cc_sleeps' = [cc_sleeps EXCEPT
                                                ![c] = Append(@, jittered(cc_delay[c], j))]
    /\ UNCHANGED <<cc_retry, cc_delay>>
    /\ UNCHANGED otherThanConc

\* time.sleep of call c ends: delay *= backoff_factor, next iteration
ConcWake(c) ==
    /\ cc_pc[c] = "sleeping"
    /\ cc_delay' = delay_after_sleep(cc_delay, c)
    /\ cc_retry' = [cc_retry EXCEPT ![c] = @ + 1]
    /\ cc_pc' = [cc_pc EXCEPT ![c] = "try"]
    /\ UNCHANGED <<cc_last, cc_attempts, cc_sleeps>>
    /\ UNCHANGED otherThanConc

InitConc == ChunkIdle /\ FetchIdle /\ DocIdle

NextConc ==
    \/ \E c \in Calls : ConcCall(c)
    \/ \E c \in Calls, net \in NetOutcomes : ConcAttempt(c, net)
    \/ \E c \in Calls : ConcWake(c)

SpecConc == InitConc /\ [][NextConc]_vars

\* the locals of call c are what its own failures and sleeps make them
OwnHistory(c) ==
    /\ cc_attempts[c] <= max_retries + 1
    /\ Len(cc_sleeps[c]) <= max_retries
    /\ cc_pc[c] \in {"try", "sleeping"} =>
           cc_delay[c] = nominal_delay(cc_retry[c] + 1)
    /\ cc_pc[c] = "try" =>
           cc_attempts[c] = cc_retry[c] /\ Len(cc_sleeps[c]) = cc_retry[c]
    /\ cc_pc[c] = "sleeping" =>
           cc_attempts[c] = cc_retry[c] + 1 /\ Len(cc_sleeps[c]) = cc_retry[c] + 1
    /\ \A k \in 1..Len(cc_sleeps[c]) :
           /\ nominal_delay(k) * 100000 <= cc_sleeps[c][k]
           /\ cc_sleeps[c][k] <= nominal_delay(k) * 110000

\* C28: under every interleaving of concurrent make_request calls, the
\* attempt counter and the delay of each call depend on that call's own
\* failures and sleeps only: each call starts at initial_delay, multiplies
\* its own delay once per own sleep, and makes at most max_retries + 1
\* attempts.
C28_CallsIndependent == \A c \in Calls : OwnHistory(c)

\* one call has used up its retries while the other, started meanwhile, is
\* in its first sleep at the initial delay
C28_Witness ==
    /\ cc_pc[1] = "raised"
    /\ cc_attempts[1] = max_retries + 1
    /\ cc_pc[2] = "sleeping"
    /\ cc_retry[2] = 0
    /\ cc_delay[2] = initial_delay
    /\ cc_attempts[2] = 1


\* C29: a successful attempt ends the run at once, every failed attempt but
\* the last is followed by exactly one sleep, and nothing is slept after the
\* last attempt: a finished run of n attempts has slept n - 1 times, and n
\* is at most max_retries + 1.
C29_SleepsBetweenAttempts ==
    /\ attempts <= max_retries + 1
    /\ mr_pc = "try" => (Len(sleeps) = attempts /\ Len(failures) = attempts)
    /\ mr_pc = "sleeping" => (Len(sleeps) = attempts - 1 /\ Len(failures) = attempts)
    /\ mr_pc = "returned" =>
           /\ attempts >= 1
           /\ Len(failures) = attempts - 1
           /\ Len(sleeps) = attempts - 1
    /\ mr_pc = "raised" =>
           /\ attempts >= 1
           /\ Len(failures) = attempts
           /\ Len(sleeps) = attempts - 1

\* a run returned on its third attempt after two sleeps
C29_Witness ==
    /\ mr_pc = "returned"
    /\ attempts = 3
    /\ Len(sleeps) = 2
    /\ Len(failures) = 2


(* ---------------- summarize_filing called again for one URL ------------ *)

\* Line 1323 runs extract_filing_text(filing_url) afresh in every call and
\* nothing is kept between calls, so each call chunks whatever text that
\* call's extraction returned: the document's text as the upstream serves it
\* then, or one of the failure messages extract_filing_text returns as text.

\* summarize_filing(url, -1, M), whose extraction returned t
SessionAsk(t) ==
    /\ reader_pc = "idle"
    /\ filing_text' = t
    /\ chunk_index' = -1
    /\ result' = summarize_filing(t, -1, max_chunk_size)
    /\ called' = TRUE
    /\ reader_total' = Numbers(result')[1]
    /\ next_index' = 0
    /\ assembled' = <<>>
    /\ reader_pc' = "reading"
    /\ UNCHANGED max_chunk_size
    /\ UNCHANGED <<fetchVars, docVars>>

\* a later summarize_filing(url, i, M) with 0 <= i < N, whose extraction
\* returned t
LaterCall(i, t) ==
    /\ reader_pc = "reading"
    /\ filing_text' = t
    /\ chunk_index' = i
    /\ result' = summarize_filing(t, i, max_chunk_size)
    /\ called' = TRUE
    /\ next_index' = i + 1
    /\ UNCHANGED <<max_chunk_size, reader_pc, reader_total, assembled>>
    /\ UNCHANGED <<fetchVars, docVars>>

NextSession ==
    \/ \E t \in Texts : SessionAsk(t)
    \/ \E t \in Texts : \E i \in 0..(reader_total - 1) : LaterCall(i, t)

SpecSession == InitChunk /\ [][NextSession]_vars

\* C30: once summarize_filing(url, -1, M) has reported N chunks, every later
\* call summarize_filing(url, i, M) with 0 <= i < N returns the marker
\* "[Chunk i+1 of N] " followed by chunk i of the text the earlier call
\* extracted, whatever the later call's extraction returned.
C30_IndicesStayValid ==
    [][(reader_pc = "reading" /\ reader_pc' = "reading" /\ chunk_index' >= 0
            /\ chunk_index' < reader_total)
        => result' = chunk_info(chunk_index', reader_total)
                        \o chunk_text(filing_text, chunk_index', max_chunk_size)]_vars

====
